---- MODULE Spec2Model ----
(***************************************************************************)
(* Model of the pose telemetry data plane of space-mouse-webrtc.           *)
(*                                                                         *)
(* The state is the WebRTCLoopbackService (its signals, its latency        *)
(* window, its three object references), the browser objects the service   *)
(* creates (peer connections, data channels, the promises of the           *)
(* offer/answer exchange, the requestAnimationFrame queue, the messages in *)
(* flight on the unordered channel), the SpaceMouse sample it reads and    *)
(* the performance.now() clock.  Every action is one task of the event     *)
(* loop: a public method call, an event handler, or the continuation of    *)
(* connect() after one of its awaits.                                      *)
(* The Gamepad API SpaceMouseService (its state signal, its polling flag   *)
(* and frame request) is modelled next to it, with the gamepads the        *)
(* browser reports.                                                        *)
(***************************************************************************)
EXTENDS Integers, Sequences, FiniteSets, TLC

\* ------------------------------------------------------------------ bounds
\* Number of connect() attempts that create peer connections: in the
\* specifications of the session life cycle (SpecSession) and of the whole
\* service across a reconnect (SpecReconnect), in the specification of the
\* whole service (Spec), and in the specification of the life cycle with
\* callbacks of two earlier sessions (SpecStale).
MaxSessions == 2
MaxDataSessions == 1
MaxStaleSessions == 3
\* Cap on packetsSent (the counter is unbounded in the code).
MaxSent == 1
\* Last reading of the performance.now() clock.
MaxTime == 1
\* Cap on packetsSent in the specification of the latency window
\* (SpecWindow): one packet more than the window holds.
MaxWindowSent == 31

\* ------------------------------------------------------- program constants
LATENCY_HISTORY_SIZE == 30
POSE_PACKET_SIZE == 32
\* POSE_PACKET_SIZE of the serializer without timestamp (Layout A).
POSE_PACKET_SIZE_LAYOUT_A == 24

\* The attempts are numbered in the order of the connect() calls
\* (MaxStaleSessions is the largest of the three bounds).
Sessions == 1..MaxStaleSessions

\* A nullable value: <<>> is null, <<v>> is the value v.
Null == <<>>
Some(v) == <<v>>

\* ConnectionState (webrtc-loopback.service.ts:6)
ConnectionStates == {"disconnected", "connecting", "connected", "failed"}

\* An axis value (a JavaScript number in [-2, 2]) is kept as an integer
\* count of units of 2^-25, so that 1.0 is AxisOne and 0.5 is AxisOne \div 2.
AxisOne == 2^25

\* SpaceMouseAxes values the poses are drawn from: all zero, all +1 or -1,
\* and a pose with axes that a 32-bit float does not hold exactly
\* (0.5 + 2^-25, -(0.5 + 3 * 2^-25), 1 + 2^-24) beside axes that it does.
ZeroAxes == [tx |-> 0, ty |-> 0, tz |-> 0, rx |-> 0, ry |-> 0, rz |-> 0]
ExtremeAxes ==
    [tx |-> AxisOne, ty |-> -AxisOne, tz |-> AxisOne,
     rx |-> -AxisOne, ry |-> AxisOne, rz |-> -AxisOne]
InexactAxes ==
    [tx |-> AxisOne \div 2 + 1, ty |-> -(AxisOne \div 2 + 3), tz |-> AxisOne + 2,
     rx |-> 1, ry |-> -(AxisOne \div 2 - 1), rz |-> AxisOne \div 2 + 2]
AxesSet == {ZeroAxes, InexactAxes}

\* createDefaultState() of the SpaceMouseService (the fields the loop reads).
createDefaultState == [connected |-> FALSE, axes |-> ZeroAxes, timestamp |-> 0]

\* createDefaultState() of the Gamepad API SpaceMouseService (lines 345-353),
\* without id and timestamp; buttons is the empty map.
createDefaultGamepadState == [connected |-> FALSE, axes |-> ZeroAxes, buttons |-> <<>>]

VARIABLES
    connectionState,   \* signal<ConnectionState>
    receivedPose,      \* signal<SpaceMouseAxes | null>
    packetsSent,       \* signal(0)
    packetsReceived,   \* signal(0)
    latencyMs,         \* signal<number | null>
    avgLatencyMs,      \* signal<number | null>, kept as <<sum, count>>
    latencyHistory,    \* number[]
    pc1,               \* RTCPeerConnection | null: 0 or the attempt that created it
    pc2,               \* RTCPeerConnection | null
    dataChannel,       \* RTCDataChannel | null
    nextSession,       \* number of the next connect() attempt that creates objects
    pc1State,          \* per attempt: the sender peer connection is "none", "open" or "closed"
    pc2State,          \* per attempt: the receiver peer connection, likewise
    pcFailed,          \* per attempt: one of its peer connections reports connectionState "failed"
    chanState,         \* per attempt: readyState of the data channel
    closeEv,           \* per attempt: a close event of the channel is queued
    connTask,          \* per attempt: the await connect() is suspended at
    awaitOn,           \* per attempt: the attempt whose peer connection owns the awaited promise
    rafQueue,          \* requestAnimationFrame callbacks, in registration order
    inflight,          \* messages sent on the channel and not yet delivered
    smState,           \* spaceMouseService.state()
    now,               \* performance.now()
    lastCall,          \* the public method called last and the state it was called in
    droppedAt,         \* null, or packetsReceived when a malformed buffer was last discarded
    codecCall,         \* the last call of a pure function: its name, input and result
    arrivals,          \* the latencies of the packets received since the last disconnect(), in arrival order
    newestStamp,       \* null, or the greatest send time among the packets received since the last disconnect()
    state,             \* SpaceMouseService.state of the Gamepad API service (connected, axes, buttons)
    isPolling,         \* SpaceMouseService.isPolling
    animationFrameId,  \* SpaceMouseService.animationFrameId: 0 for null, or a request id
    frames,            \* the ids of the requested frame callbacks of poll that have neither run nor been cancelled
    nextFrameId,       \* the id the next requestAnimationFrame(this.poll) returns
    gamepads           \* navigator.getGamepads(): the SpaceMouse (null, or its sample) and whether another gamepad is connected

svcVars == <<connectionState, receivedPose, packetsSent, packetsReceived,
             latencyMs, avgLatencyMs, latencyHistory, pc1, pc2, dataChannel>>
envVars == <<nextSession, pc1State, pc2State, pcFailed, chanState, closeEv, connTask,
             awaitOn, rafQueue, inflight, smState, now>>
vars == <<connectionState, receivedPose, packetsSent, packetsReceived,
          latencyMs, avgLatencyMs, latencyHistory, pc1, pc2, dataChannel,
          nextSession, pc1State, pc2State, pcFailed, chanState, closeEv, connTask,
          awaitOn, rafQueue, inflight, smState, now, lastCall,
          droppedAt, codecCall, arrivals, newestStamp,
          state, isPolling, animationFrameId, frames, nextFrameId, gamepads>>

\* The Gamepad API SpaceMouseService and the browser objects it uses.
pollVars == <<state, isPolling, animationFrameId, frames, nextFrameId, gamepads>>

\* The variables that record what was called: no handler of the service
\* reads them.
histVars == <<droppedAt, codecCall>>

\* ------------------------------------------------------------- the codec
\* The spacing of the 32-bit floats (24-bit significand) around a value of
\* magnitude a < 4 * AxisOne, in units of 2^-25: below 0.5 every count is a
\* float, in [0.5, 1) every second one, in [1, 2) every fourth one.
Float32Ulp(a) ==
    IF a < AxisOne \div 2 THEN 1
    ELSE IF a < AxisOne THEN 2
    ELSE IF a < 2 * AxisOne THEN 4 ELSE 8

\* What DataView.setFloat32 / a Float32Array element stores for the number
\* v: the nearest 32-bit float, ties to the even significand.
Float32(v) ==
    LET a == IF v < 0 THEN -v ELSE v
        ulp == Float32Ulp(a)
        q == a \div ulp
        r == a % ulp
        rounded == IF 2 * r > ulp \/ (2 * r = ulp /\ q % 2 = 1)
                   THEN (q + 1) * ulp ELSE q * ulp
    IN  IF v < 0 THEN -rounded ELSE rounded

\* The six axes as six 32-bit floats.
Float32Axes(axes) == [k \in DOMAIN axes |-> Float32(axes[k])]

\* Variant of packPose(axes, timestamp) that stores the axes as 64-bit
\* floats, unrounded.
packPoseFloat64(axes, timestamp) ==
    [byteLength |-> POSE_PACKET_SIZE, timestamp |-> timestamp, axes |-> axes]

\* packPose(axes, timestamp): a Layout B buffer, the timestamp a 64-bit
\* float (it holds every reading of the clock exactly) and the axes 32-bit
\* floats.
packPose(axes, timestamp) ==
    [byteLength |-> POSE_PACKET_SIZE, timestamp |-> timestamp,
     axes |-> Float32Axes(axes)]

\* The Error thrown for a buffer of the wrong size; its message is
\* `Invalid buffer size: expected ${expected} bytes, got ${got}`.
InvalidBufferSize(expected, got) ==
    [error |-> "Invalid buffer size", expected |-> expected, got |-> got]

\* The call threw instead of returning.
Threw(result) == "error" \in DOMAIN result

\* Variant of unpackPoseWithTimestamp(buffer) that rejects only the buffers
\* that are too short and decodes the first 32 bytes of a longer one.
unpackPoseWithTimestampAtLeast(buffer) ==
    IF buffer.byteLength < POSE_PACKET_SIZE
    THEN InvalidBufferSize(POSE_PACKET_SIZE, buffer.byteLength)
    ELSE [timestamp |-> buffer.timestamp, axes |-> buffer.axes]

\* unpackPoseWithTimestamp(buffer) (Layout B): the TimestampedPose, or the
\* Error thrown.
unpackPoseWithTimestamp(buffer) ==
    IF buffer.byteLength # POSE_PACKET_SIZE
    THEN InvalidBufferSize(POSE_PACKET_SIZE, buffer.byteLength)
    ELSE [timestamp |-> buffer.timestamp, axes |-> buffer.axes]

\* unpackPose(buffer) of Layout B: the axes, or the Error thrown.
unpackPose(buffer) ==
    IF buffer.byteLength # POSE_PACKET_SIZE
    THEN InvalidBufferSize(POSE_PACKET_SIZE, buffer.byteLength)
    ELSE buffer.axes

\* unpackPose(buffer) of Layout A (six 32-bit floats, no timestamp): the
\* axes, or the Error thrown.
unpackPoseLayoutA(buffer) ==
    IF buffer.byteLength # POSE_PACKET_SIZE_LAYOUT_A
    THEN InvalidBufferSize(POSE_PACKET_SIZE_LAYOUT_A, buffer.byteLength)
    ELSE buffer.axes

\* ------------------------------------------------- the codec, byte by byte
\* An ArrayBuffer or Uint8Array is the sequence of its bytes; the byte at
\* offset o is element o + 1.  Where a definition below takes its value
\* from a one-element set, {F(x) : x \in {e}}, that is F(e) with e computed
\* once.
Zeros(n) == [i \in 1..n |-> 0]
Reverse(s) ==
    CHOOSE r \in {[i \in 1..Len(v) |-> v[Len(v) + 1 - i]] : v \in {s}} : TRUE

\* The IEEE 754 binary32 encoding of the 32-bit float f, most significant
\* byte first: one sign bit, eight exponent bits (bias 127), 23 fraction
\* bits.  f counts units of 2^-25, so the exponent of a value whose leading
\* bit is bit e is e - 25.
EncodeFloat32(f) ==
    LET a == IF f < 0 THEN -f ELSE f
        sign == IF f < 0 THEN 128 ELSE 0
        Fields(e) ==
            LET biased == e - 25 + 127
                fraction == IF e <= 23 THEN (a - 2^e) * 2^(23 - e)
                            ELSE (a - 2^e) \div 2^(e - 23)
            IN  CHOOSE r \in {<<sign + biased \div 2,
                                (biased % 2) * 128 + fr \div 65536,
                                (fr \div 256) % 256,
                                fr % 256>> : fr \in {fraction}} : TRUE
    IN  IF a = 0 THEN <<0, 0, 0, 0>>
        ELSE CHOOSE r \in {Fields(e) : e \in {k \in 0..29 : 2^k <= a /\ a < 2 * 2^k}} : TRUE

\* What storing the number v in a 32-bit float field writes: the encoding
\* of the 32-bit float nearest to v.
Float32Bytes(v) ==
    CHOOSE r \in {EncodeFloat32(f) : f \in {Float32(v)}} : TRUE

\* The 32-bit float that four bytes, most significant first, encode: its
\* count of units of 2^-25, or, for a float that is no such count below 32
\* (a NaN, an infinity, a smaller fraction), the float named by its bytes.
DecodeFloat32(b) ==
    LET biased == (b[1] % 128) * 2 + b[2] \div 128
        fraction == (b[2] % 128) * 65536 + b[3] * 256 + b[4]
        e == biased - 127 + 25
        a == IF e <= 23 THEN 2^e + fraction \div 2^(23 - e)
             ELSE 2^e + fraction * 2^(e - 23)
    IN  IF biased = 0 /\ fraction = 0 THEN 0
        ELSE IF \/ biased = 0
                \/ e < 0
                \/ e > 29
                \/ (e < 23 /\ fraction % 2^(23 - e) # 0)
             THEN [float32 |-> b]
             ELSE IF b[1] >= 128 THEN -a ELSE a
BytesFloat32(bytes) ==
    CHOOSE r \in {DecodeFloat32(b) : b \in {bytes}} : TRUE

\* The IEEE 754 binary64 encoding of a clock reading t (a whole number of
\* milliseconds below 2^21), most significant byte first: one sign bit,
\* eleven exponent bits (bias 1023), 52 fraction bits of which the upper
\* twenty hold the reading and the lower 32 are zero.
Float64Bytes(t) ==
    LET Fields(e) ==
            LET biased == e + 1023
                upper == (t - 2^e) * 2^(20 - e)
            IN  CHOOSE r \in {<<biased \div 16,
                                (biased % 16) * 16 + up \div 65536,
                                (up \div 256) % 256,
                                up % 256, 0, 0, 0, 0>> : up \in {upper}} : TRUE
    IN  IF t = 0 THEN Zeros(8)
        ELSE CHOOSE r \in {Fields(e) : e \in {k \in 0..20 : 2^k <= t /\ t < 2 * 2^k}} : TRUE

\* The clock reading that eight bytes, most significant first, encode, or,
\* for a float that is no whole number from 0 to 2^21 - 1, the float named
\* by its bytes.
DecodeFloat64(b) ==
    LET biased == b[1] * 16 + b[2] \div 16
        upper == (b[2] % 16) * 65536 + b[3] * 256 + b[4]
        e == biased - 1023
    IN  IF b = Zeros(8) THEN 0
        ELSE IF \/ e < 0
                \/ e > 20
                \/ upper % 2^(20 - e) # 0
                \/ SubSeq(b, 5, 8) # Zeros(4)
             THEN [float64 |-> b]
             ELSE 2^e + upper \div 2^(20 - e)
BytesFloat64(bytes) ==
    CHOOSE r \in {DecodeFloat64(b) : b \in {bytes}} : TRUE

\* The bytes of buffer with field stored from byteOffset on, for a field
\* that ends within the buffer.
WriteBytes(buffer, byteOffset, field) ==
    LET Put(b, f) ==
            SubSeq(b, 1, byteOffset) \o f
                \o SubSeq(b, byteOffset + Len(f) + 1, Len(b))
    IN  CHOOSE r \in {Put(b, f) : b \in {buffer}, f \in {field}} : TRUE

\* DataView.setFloat64 / setFloat32 / getFloat64 / getFloat32 with the
\* littleEndian argument: the argument alone fixes the byte order.
setFloat64(buffer, byteOffset, value, littleEndian) ==
    WriteBytes(buffer, byteOffset,
               IF littleEndian THEN Reverse(Float64Bytes(value))
               ELSE Float64Bytes(value))
setFloat32(buffer, byteOffset, value, littleEndian) ==
    WriteBytes(buffer, byteOffset,
               IF littleEndian THEN Reverse(Float32Bytes(value))
               ELSE Float32Bytes(value))
getFloat64(buffer, byteOffset, littleEndian) ==
    BytesFloat64(IF littleEndian
                 THEN Reverse(SubSeq(buffer, byteOffset + 1, byteOffset + 8))
                 ELSE SubSeq(buffer, byteOffset + 1, byteOffset + 8))
getFloat32(buffer, byteOffset, littleEndian) ==
    BytesFloat32(IF littleEndian
                 THEN Reverse(SubSeq(buffer, byteOffset + 1, byteOffset + 4))
                 ELSE SubSeq(buffer, byteOffset + 1, byteOffset + 4))

\* A DataView write or a TypedArray.set that reaches past the end throws.
RangeError == <<"RangeError">>

\* Layout A packPose(axes) (lines 23-35) on a host whose typed arrays are
\* little-endian or big-endian: a new 24-byte buffer written through a
\* Float32Array, element i at bytes 4i .. 4i + 3 in the byte order of the
\* host.
packPoseLayoutA(axes, littleEndianHost) ==
    LET b0 == Zeros(POSE_PACKET_SIZE_LAYOUT_A)
        b1 == setFloat32(b0, 0, axes.tx, littleEndianHost)
        b2 == setFloat32(b1, 4, axes.ty, littleEndianHost)
        b3 == setFloat32(b2, 8, axes.tz, littleEndianHost)
        b4 == setFloat32(b3, 12, axes.rx, littleEndianHost)
        b5 == setFloat32(b4, 16, axes.ry, littleEndianHost)
    IN  setFloat32(b5, 20, axes.rz, littleEndianHost)

\* Variant of Layout B packPose that writes ty before tx.
packPoseBytesSwapped(axes, timestamp, reuseBuffer) ==
    LET buffer == IF reuseBuffer = Null THEN Zeros(POSE_PACKET_SIZE)
                  ELSE reuseBuffer[1]
        b1 == setFloat64(buffer, 0, timestamp, TRUE)
        b2 == setFloat32(b1, 8, axes.ty, TRUE)
        b3 == setFloat32(b2, 12, axes.tx, TRUE)
        b4 == setFloat32(b3, 16, axes.tz, TRUE)
        b5 == setFloat32(b4, 20, axes.rx, TRUE)
        b6 == setFloat32(b5, 24, axes.ry, TRUE)
    IN  IF 28 + 4 > Len(buffer) THEN RangeError
        ELSE setFloat32(b6, 28, axes.rz, TRUE)

\* Layout B packPose(axes, timestamp, reuseBuffer) (lines 130-150), byte by
\* byte: the buffer is reuseBuffer when one is given, whatever its length,
\* and a new one of POSE_PACKET_SIZE bytes otherwise; the seven DataView
\* writes are little-endian, and the one at offset 28 throws when the
\* buffer is shorter than 32 bytes.
packPoseBytes(axes, timestamp, reuseBuffer) ==
    LET buffer == IF reuseBuffer = Null THEN Zeros(POSE_PACKET_SIZE)
                  ELSE reuseBuffer[1]
        b1 == setFloat64(buffer, 0, timestamp, TRUE)
        b2 == setFloat32(b1, 8, axes.tx, TRUE)
        b3 == setFloat32(b2, 12, axes.ty, TRUE)
        b4 == setFloat32(b3, 16, axes.tz, TRUE)
        b5 == setFloat32(b4, 20, axes.rx, TRUE)
        b6 == setFloat32(b5, 24, axes.ry, TRUE)
    IN  IF 28 + 4 > Len(buffer) THEN RangeError
        ELSE setFloat32(b6, 28, axes.rz, TRUE)

\* What the reads of the Layout B decoders (lines 165-174, 190-202) give on
\* a buffer: its byte length and, when it is long enough to be read, the
\* timestamp and the axes at their offsets.
DataViewOf(buffer) ==
    IF Len(buffer) < POSE_PACKET_SIZE
    THEN [byteLength |-> Len(buffer), timestamp |-> 0, axes |-> ZeroAxes]
    ELSE [byteLength |-> Len(buffer),
          timestamp |-> getFloat64(buffer, 0, TRUE),
          axes |-> [tx |-> getFloat32(buffer, 8, TRUE),
                    ty |-> getFloat32(buffer, 12, TRUE),
                    tz |-> getFloat32(buffer, 16, TRUE),
                    rx |-> getFloat32(buffer, 20, TRUE),
                    ry |-> getFloat32(buffer, 24, TRUE),
                    rz |-> getFloat32(buffer, 28, TRUE)]]

\* What the reads of the Layout A decoder (lines 50-59) give on a buffer:
\* elements 0 to 5 of a Float32Array in the byte order of the host.
Float32ArrayOf(buffer, littleEndianHost) ==
    IF Len(buffer) < POSE_PACKET_SIZE_LAYOUT_A
    THEN [byteLength |-> Len(buffer), timestamp |-> 0, axes |-> ZeroAxes]
    ELSE [byteLength |-> Len(buffer), timestamp |-> 0,
          axes |-> [tx |-> getFloat32(buffer, 0, littleEndianHost),
                    ty |-> getFloat32(buffer, 4, littleEndianHost),
                    tz |-> getFloat32(buffer, 8, littleEndianHost),
                    rx |-> getFloat32(buffer, 12, littleEndianHost),
                    ry |-> getFloat32(buffer, 16, littleEndianHost),
                    rz |-> getFloat32(buffer, 20, littleEndianHost)]]

\* TypedArray.prototype.set past the end of the target throws.
SetRangeError == [error |-> "RangeError"]

\* The packet size of a layout.
PacketSize(layout) ==
    IF layout = "A" THEN POSE_PACKET_SIZE_LAYOUT_A ELSE POSE_PACKET_SIZE

\* packPose(axes) as packPoseToUint8Array calls it (lines 73, 216): Layout A
\* in the byte order of the host, Layout B with the timestamp defaulting to
\* performance.now().
packPoseOf(layout, axes, littleEndianHost, clock) ==
    IF layout = "A" THEN packPoseLayoutA(axes, littleEndianHost)
    ELSE packPoseBytes(axes, clock, Null)

\* Variant of packPoseToUint8Array that writes at the start of the target
\* whatever the offset.
packPoseToUint8ArrayAtStart(packed, target, offset) ==
    IF target # Null
    THEN IF Len(packed) > Len(target[1])
         THEN SetRangeError
         ELSE [ref |-> "target", bytes |-> WriteBytes(target[1], 0, packed)]
    ELSE [ref |-> "new", bytes |-> packed]

\* packPoseToUint8Array(axes, target, offset) (lines 69-84, 212-227) after
\* its call of packPose(axes), which gave packed: target.set copies packed
\* into the target from offset on and the target is returned; without a
\* target a new array over packed is returned.  ref tells which array the
\* result is.
packPoseToUint8Array(packed, target, offset) ==
    IF target # Null
    THEN IF offset + Len(packed) > Len(target[1])
         THEN SetRangeError
         ELSE [ref |-> "target", bytes |-> WriteBytes(target[1], offset, packed)]
    ELSE [ref |-> "new", bytes |-> packed]

\* data.slice(begin, end): a copy, end clamped to the length.
Slice(data, begin, end) ==
    SubSeq(data, begin + 1, IF end > Len(data) THEN Len(data) ELSE end)

\* unpackPoseFromUint8Array(data, offset) (lines 92-96, 235-239).
unpackPoseFromUint8Array(layout, data, offset, littleEndianHost) ==
    LET Decode(slice) ==
            IF layout = "A"
            THEN unpackPoseLayoutA(Float32ArrayOf(slice, littleEndianHost))
            ELSE unpackPose(DataViewOf(slice))
    IN  CHOOSE r \in {Decode(slice) :
                         slice \in {Slice(data, offset, offset + PacketSize(layout))}} : TRUE

\* ------------------------------- the deadzone filter and change detector
\* The arguments of the two functions are whole counts of a unit: the
\* thousandth for applyDeadzone (DeadzoneOne is 1.0), any common unit for
\* hasSignificantChange.  A result of a division is the pair of a numerator
\* n and a denominator d >= 0; d = 0 makes the IEEE 754 values that are no
\* numbers: Infinity (n > 0), -Infinity (n < 0) and NaN (n = 0).
DeadzoneOne == 1000
Abs(x) == IF x < 0 THEN -x ELSE x
Sign(x) == IF x > 0 THEN 1 ELSE IF x < 0 THEN -1 ELSE 0
Number(n) == [n |-> n, d |-> 1]
Quotient(n, d) == IF d < 0 THEN [n |-> -n, d |-> -d] ELSE [n |-> n, d |-> d]
IsNaN(x) == x.n = 0 /\ x.d = 0
IsZero(x) == x.n = 0 /\ x.d > 0
\* x < y for two such values; every comparison with NaN is false.
Less(x, y) ==
    /\ ~IsNaN(x)
    /\ ~IsNaN(y)
    /\ IF x.d = 0 /\ y.d = 0 THEN x.n < 0 /\ y.n > 0
       ELSE IF x.d = 0 THEN x.n < 0
       ELSE IF y.d = 0 THEN y.n > 0
       ELSE x.n * y.d < y.n * x.d
\* Math.min(x, y): NaN when either is NaN.
MathMin(x, y) ==
    IF IsNaN(x) \/ IsNaN(y) THEN Quotient(0, 0)
    ELSE IF Less(y, x) THEN y ELSE x
\* sign * x for sign in {-1, 0, 1}; 0 * Infinity is NaN.
Times(sign, x) == [n |-> sign * x.n, d |-> x.d]

\* Variant of applyDeadzone without the test of the threshold.
applyDeadzoneNoTest(value, threshold) ==
    LET absValue == Abs(value)
        sign == Sign(value)
        scaledValue == Quotient(absValue - threshold, DeadzoneOne - threshold)
    IN  Times(sign, MathMin(scaledValue, Number(1)))

\* applyDeadzone(value, threshold) (lines 10-22).
applyDeadzone(value, threshold) ==
    LET absValue == Abs(value)
        sign == Sign(value)
        scaledValue == Quotient(absValue - threshold, DeadzoneOne - threshold)
    IN  IF absValue < threshold
        THEN Number(0)
        ELSE Times(sign, MathMin(scaledValue, Number(1)))

\* Variant of hasSignificantChange that also reports a difference of
\* exactly epsilon.
hasSignificantChangeInclusive(a, b, epsilon) == Abs(a - b) >= epsilon

\* hasSignificantChange(a, b, epsilon) (lines 33-35).
hasSignificantChange(a, b, epsilon) == Abs(a - b) > epsilon

\* The default epsilon of hasSignificantChange, 0.001, in the unit of the
\* axes of a compared state, the ten-thousandth.
DefaultEpsilon == 10

\* A SpaceMouseButtons object is a function from the indexes it has as keys
\* to booleans.  buttons[index] for a key that may be missing: the value in
\* a one-element tuple, or the empty tuple for undefined.
ButtonAt(buttons, index) ==
    IF index \in DOMAIN buttons THEN <<buttons[index]>> ELSE <<>>

\* The test of the six axes in hasStateChanged (lines 502-509, 286-293).
AxesChanged(currentAxes, newAxes) ==
    \/ hasSignificantChange(currentAxes.tx, newAxes.tx, DefaultEpsilon)
    \/ hasSignificantChange(currentAxes.ty, newAxes.ty, DefaultEpsilon)
    \/ hasSignificantChange(currentAxes.tz, newAxes.tz, DefaultEpsilon)
    \/ hasSignificantChange(currentAxes.rx, newAxes.rx, DefaultEpsilon)
    \/ hasSignificantChange(currentAxes.ry, newAxes.ry, DefaultEpsilon)
    \/ hasSignificantChange(currentAxes.rz, newAxes.rz, DefaultEpsilon)

\* The test of the buttons in hasStateChanged (lines 514-526, 298-310):
\* the numbers of keys, then the value of every key of the current map.
ButtonsChanged(currentButtons, newButtons) ==
    IF Cardinality(DOMAIN currentButtons) # Cardinality(DOMAIN newButtons)
    THEN TRUE
    ELSE \E index \in DOMAIN currentButtons :
            ButtonAt(currentButtons, index) # ButtonAt(newButtons, index)

\* Variant of hasStateChanged that compares the numbers of keys of the
\* button maps and not their values.
hasStateChangedKeyCount(current, newAxes, newButtons, connected) ==
    IF current.connected # connected THEN TRUE
    ELSE IF AxesChanged(current.axes, newAxes) THEN TRUE
    ELSE Cardinality(DOMAIN current.buttons) # Cardinality(DOMAIN newButtons)

\* hasStateChanged(current, newAxes, newButtons, connected) of the Gamepad
\* API service (lines 490-529).
hasStateChanged(current, newAxes, newButtons, connected) ==
    IF current.connected # connected THEN TRUE
    ELSE IF AxesChanged(current.axes, newAxes) THEN TRUE
    ELSE ButtonsChanged(current.buttons, newButtons)

\* hasStateChanged(current, newAxes, newButtons) of the WebHID service
\* (lines 280-313), which has no connected argument.
hasStateChangedHid(current, newAxes, newButtons) ==
    IF AxesChanged(current.axes, newAxes) THEN TRUE
    ELSE ButtonsChanged(current.buttons, newButtons)

\* ---------------------------------------------------------------- helpers
RECURSIVE SumSeq(_)
SumSeq(s) == IF s = <<>> THEN 0 ELSE Head(s) + SumSeq(Tail(s))

\* History of the send loops: a loop is ended once connectionState has left
\* "connected" after the loop was started.
MarkEnded(q, newState) ==
    IF connectionState = "connected" /\ newState # "connected"
    THEN [i \in 1..Len(q) |-> [q[i] EXCEPT !.ended = TRUE]]
    ELSE q

\* The awaits of connect(), in order, and the field each one calls into.
LastStep == 6
Done == 7
Caught == 8
\* connect() is suspended on a promise of a peer connection that was closed:
\* whatever the step, the promise is never fulfilled.
Abandoned == 9
StepField(k) == IF k \in {1, 2, 6} THEN pc1 ELSE pc2
StepPcState(k, s) == IF k \in {1, 2, 6} THEN pc1State[s] ELSE pc2State[s]

Init ==
    /\ connectionState = "disconnected"
    /\ receivedPose = Null
    /\ packetsSent = 0
    /\ packetsReceived = 0
    /\ latencyMs = Null
    /\ avgLatencyMs = Null
    /\ latencyHistory = <<>>
    /\ pc1 = 0
    /\ pc2 = 0
    /\ dataChannel = 0
    /\ nextSession = 1
    /\ pc1State = [s \in Sessions |-> "none"]
    /\ pc2State = [s \in Sessions |-> "none"]
    /\ pcFailed = [s \in Sessions |-> FALSE]
    /\ chanState = [s \in Sessions |-> "none"]
    /\ closeEv = [s \in Sessions |-> FALSE]
    /\ connTask = [s \in Sessions |-> 0]
    /\ awaitOn = [s \in Sessions |-> 0]
    /\ rafQueue = <<>>
    /\ inflight = {}
    /\ smState = createDefaultState
    /\ now = 0
    /\ lastCall = [op |-> "none", from |-> "disconnected"]
    /\ droppedAt = Null
    /\ codecCall = [fn |-> "none"]
    /\ arrivals = <<>>
    /\ newestStamp = Null
    /\ state = createDefaultGamepadState
    /\ isPolling = FALSE
    /\ animationFrameId = 0
    /\ frames = {}
    /\ nextFrameId = 1
    /\ gamepads = [spaceMouse |-> Null, other |-> FALSE]

Called(op) == lastCall' = [op |-> op, from |-> connectionState]

\* ------------------------------------------------------------- disconnect
\* The body of disconnect() (lines 140-165): stopSendingPose() cancels
\* nothing (gamepadEffectCleanup is never assigned), the channel and the two
\* peer connections the fields refer to are closed and the fields nulled,
\* the state and the statistics are reset.  Closing queues the channel's
\* close event; the messages still in flight are discarded with the channel;
\* the operations pending on the closed peer connections are abandoned.
AbandonTasks(task) ==
    [s \in Sessions |->
        IF task[s] \in 1..LastStep /\ StepField(task[s]) # 0
                                   /\ awaitOn[s] = StepField(task[s])
        THEN Abandoned ELSE task[s]]

\* Variant of the body of disconnect() that keeps the count of sent packets.
disconnectBodyKeepsSent ==
    /\ chanState' = IF dataChannel # 0
                    THEN [chanState EXCEPT ![dataChannel] = "closed"]
                    ELSE chanState
    /\ closeEv' = IF dataChannel # 0 /\ chanState[dataChannel] # "closed"
                  THEN [closeEv EXCEPT ![dataChannel] = TRUE]
                  ELSE closeEv
    /\ inflight' = IF dataChannel # 0
                   THEN {m \in inflight : m.chan # dataChannel}
                   ELSE inflight
    /\ dataChannel' = 0
    /\ pc1State' = IF pc1 # 0 THEN [pc1State EXCEPT ![pc1] = "closed"] ELSE pc1State
    /\ pc1' = 0
    /\ pc2State' = IF pc2 # 0 THEN [pc2State EXCEPT ![pc2] = "closed"] ELSE pc2State
    /\ pc2' = 0
    /\ connectionState' = "disconnected"
    /\ packetsSent' = packetsSent
    /\ packetsReceived' = 0
    /\ receivedPose' = Null
    /\ latencyMs' = Null
    /\ avgLatencyMs' = Null
    /\ latencyHistory' = <<>>
    /\ arrivals' = <<>>
    /\ newestStamp' = Null
    /\ UNCHANGED pollVars
    /\ rafQueue' = MarkEnded(rafQueue, "disconnected")

disconnectBody ==
    /\ chanState' = IF dataChannel # 0
                    THEN [chanState EXCEPT ![dataChannel] = "closed"]
                    ELSE chanState
    /\ closeEv' = IF dataChannel # 0 /\ chanState[dataChannel] # "closed"
                  THEN [closeEv EXCEPT ![dataChannel] = TRUE]
                  ELSE closeEv
    /\ inflight' = IF dataChannel # 0
                   THEN {m \in inflight : m.chan # dataChannel}
                   ELSE inflight
    /\ dataChannel' = 0
    /\ pc1State' = IF pc1 # 0 THEN [pc1State EXCEPT ![pc1] = "closed"] ELSE pc1State
    /\ pc1' = 0
    /\ pc2State' = IF pc2 # 0 THEN [pc2State EXCEPT ![pc2] = "closed"] ELSE pc2State
    /\ pc2' = 0
    /\ connectionState' = "disconnected"
    /\ packetsSent' = 0
    /\ packetsReceived' = 0
    /\ receivedPose' = Null
    /\ latencyMs' = Null
    /\ avgLatencyMs' = Null
    /\ latencyHistory' = <<>>
    /\ arrivals' = <<>>
    /\ newestStamp' = Null
    /\ UNCHANGED pollVars
    /\ rafQueue' = MarkEnded(rafQueue, "disconnected")

disconnect ==
    /\ Called("disconnect")
    /\ UNCHANGED histVars
    /\ disconnectBody
    /\ connTask' = AbandonTasks(connTask)
    /\ UNCHANGED <<nextSession, pcFailed, awaitOn, smState, now>>

\* ---------------------------------------------------------------- connect
\* connect() up to its first await (lines 54-124); limit bounds the number
\* of attempts.
\* Variant of connect() without the guard of lines 55-57.
connectAttemptUnguarded(limit) ==
    /\ Called("connect")
    /\ UNCHANGED <<histVars, arrivals, newestStamp, pollVars>>
    /\ nextSession <= limit
    /\ connectionState' = "connecting"
    /\ pc1' = nextSession
    /\ pc2' = nextSession
    /\ dataChannel' = nextSession
    /\ pc1State' = [pc1State EXCEPT ![nextSession] = "open"]
    /\ pc2State' = [pc2State EXCEPT ![nextSession] = "open"]
    /\ chanState' = [chanState EXCEPT ![nextSession] = "connecting"]
    /\ connTask' = [connTask EXCEPT ![nextSession] = 1]
    /\ awaitOn' = [awaitOn EXCEPT ![nextSession] = nextSession]
    /\ nextSession' = nextSession + 1
    /\ rafQueue' = MarkEnded(rafQueue, "connecting")
    /\ UNCHANGED <<receivedPose, packetsSent, packetsReceived, latencyMs,
                   avgLatencyMs, latencyHistory, pcFailed, closeEv,
                   inflight, smState, now>>

connectAttempt(limit) ==
    /\ Called("connect")
    /\ UNCHANGED <<histVars, arrivals, newestStamp, pollVars>>
    /\ IF connectionState # "disconnected"
       THEN UNCHANGED <<svcVars, envVars>>
       ELSE /\ nextSession <= limit
            /\ connectionState' = "connecting"
            /\ pc1' = nextSession
            /\ pc2' = nextSession
            /\ dataChannel' = nextSession
            /\ pc1State' = [pc1State EXCEPT ![nextSession] = "open"]
            /\ pc2State' = [pc2State EXCEPT ![nextSession] = "open"]
            /\ chanState' = [chanState EXCEPT ![nextSession] = "connecting"]
            /\ connTask' = [connTask EXCEPT ![nextSession] = 1]
            /\ awaitOn' = [awaitOn EXCEPT ![nextSession] = nextSession]
            /\ nextSession' = nextSession + 1
            /\ UNCHANGED <<receivedPose, packetsSent, packetsReceived, latencyMs,
                           avgLatencyMs, latencyHistory, pcFailed, closeEv,
                           rafQueue, inflight, smState, now>>

connect == connectAttempt(MaxDataSessions)

connectSession == connectAttempt(MaxSessions)

connectStale == connectAttempt(MaxStaleSessions)

\* The catch block of connect() (lines 131-134).
connectCatch(s) ==
    /\ connTask' = AbandonTasks([connTask EXCEPT ![s] = Caught])
    /\ disconnectBody
    /\ UNCHANGED <<nextSession, pcFailed, awaitOn, smState, now, lastCall, histVars>>

\* The awaited promise of attempt s is fulfilled and connect() runs to its
\* next await (lines 124-130).  The next call goes through this.pc1 or
\* this.pc2 as the field is now: a null field throws a TypeError into the
\* catch block.  A promise of a closed peer connection is not fulfilled.
HandshakeResolve(s) ==
    /\ connTask[s] \in 1..LastStep
    /\ StepPcState(connTask[s], awaitOn[s]) # "closed"
    /\ IF connTask[s] = LastStep
       THEN /\ connTask' = [connTask EXCEPT ![s] = Done]
            /\ UNCHANGED <<svcVars, nextSession, pc1State, pc2State, pcFailed, chanState,
                           closeEv, awaitOn, rafQueue, inflight, smState, now,
                           lastCall, histVars, arrivals, newestStamp, pollVars>>
       ELSE IF StepField(connTask[s] + 1) = 0
            THEN connectCatch(s)
            ELSE /\ connTask' = [connTask EXCEPT ![s] = connTask[s] + 1]
                 /\ awaitOn' = [awaitOn EXCEPT ![s] = StepField(connTask[s] + 1)]
                 /\ UNCHANGED <<svcVars, nextSession, pc1State, pc2State,
                                pcFailed, chanState, closeEv, rafQueue, inflight, smState,
                                now, lastCall, histVars, arrivals, newestStamp, pollVars>>

\* The awaited promise of attempt s is rejected: a step of the exchange
\* fails, or the host rejects the pending operation of a peer connection
\* that was closed meanwhile.
HandshakeReject(s) ==
    /\ connTask[s] \in (1..LastStep) \cup {Abandoned}
    /\ connectCatch(s)

\* --------------------------------------------------- data channel events
\* The error event and the close event of a channel are fired by one task:
\* between the two handlers only microtasks run (the continuations of
\* connect() and whatever public method they call), no other event handler
\* and no frame callback.  The task is in progress while the close event of
\* the channel the service holds is queued (disconnect() releases the
\* channel it closes).
BetweenTasks == ~(dataChannel # 0 /\ closeEv[dataChannel])

\* Variant of dataChannel.onopen that sets the state and starts no loop.
onopenNoLoop(s) ==
    /\ connectionState' = "connected"
    /\ rafQueue' = MarkEnded(rafQueue, "connected")

\* dataChannel.onopen of the channel of attempt s (lines 96-101), with
\* startSendingPose() (lines 191-213) registering the first frame callback
\* of a new loop whose lastTimestamp is 0.  The channel opens once the
\* offer/answer exchange of its own peer connections went through and
\* neither of them failed.
onopen(s) ==
    /\ connectionState' = "connected"
    /\ rafQueue' = Append(rafQueue, [id |-> s, lastTimestamp |-> 0, ended |-> FALSE])

ChannelOpen(s) ==
    /\ BetweenTasks
    /\ chanState[s] = "connecting"
    /\ connTask[s] = Done
    /\ awaitOn[s] = s
    /\ pc1State[s] = "open"
    /\ pc2State[s] = "open"
    /\ ~pcFailed[s]
    /\ chanState' = [chanState EXCEPT ![s] = "open"]
    /\ onopen(s)
    /\ UNCHANGED <<receivedPose, packetsSent, packetsReceived, latencyMs,
                   avgLatencyMs, latencyHistory, pc1, pc2, dataChannel,
                   nextSession, pc1State, pc2State, pcFailed, closeEv, connTask, awaitOn,
                   inflight, smState, now, lastCall, histVars, arrivals, newestStamp, pollVars>>

\* Variant of dataChannel.onclose that leaves the state alone.
oncloseIgnored ==
    /\ UNCHANGED <<connectionState, rafQueue>>

\* dataChannel.onclose (lines 103-107).
onclose ==
    /\ connectionState' = "disconnected"
    /\ rafQueue' = MarkEnded(rafQueue, "disconnected")

\* dataChannel.onerror (lines 109-111): an empty handler.
onerror ==
    /\ UNCHANGED <<connectionState, rafQueue>>

\* The transport of the open channel of attempt s is closed: the channel
\* becomes closed, its undelivered messages are lost and its close event
\* is fired.
TransportClosed(s) ==
    /\ BetweenTasks
    /\ chanState[s] = "open"
    /\ chanState' = [chanState EXCEPT ![s] = "closed"]
    /\ inflight' = {m \in inflight : m.chan # s}
    /\ onclose
    /\ UNCHANGED <<receivedPose, packetsSent, packetsReceived, latencyMs,
                   avgLatencyMs, latencyHistory, pc1, pc2, dataChannel,
                   nextSession, pc1State, pc2State, pcFailed, closeEv, connTask, awaitOn,
                   smState, now, lastCall, histVars, arrivals, newestStamp, pollVars>>

\* The transport of the open channel of attempt s is closed with an error:
\* the channel becomes closed, its error event is fired and its close event
\* follows.
TransportError(s) ==
    /\ BetweenTasks
    /\ chanState[s] = "open"
    /\ chanState' = [chanState EXCEPT ![s] = "closed"]
    /\ inflight' = {m \in inflight : m.chan # s}
    /\ closeEv' = [closeEv EXCEPT ![s] = TRUE]
    /\ onerror
    /\ UNCHANGED <<receivedPose, packetsSent, packetsReceived, latencyMs,
                   avgLatencyMs, latencyHistory, pc1, pc2, dataChannel,
                   nextSession, pc1State, pc2State, pcFailed, connTask,
                   awaitOn, smState, now, lastCall, histVars, arrivals, newestStamp, pollVars>>

\* A queued close event of the channel of attempt s is delivered: the one
\* that follows an error event, or the one of a channel that disconnect()
\* closed.
ChannelCloseEvent(s) ==
    /\ closeEv[s]
    /\ BetweenTasks \/ dataChannel = s
    /\ closeEv' = [closeEv EXCEPT ![s] = FALSE]
    /\ onclose
    /\ UNCHANGED <<receivedPose, packetsSent, packetsReceived, latencyMs,
                   avgLatencyMs, latencyHistory, pc1, pc2, dataChannel,
                   nextSession, pc1State, pc2State, pcFailed, chanState, connTask,
                   awaitOn, inflight, smState, now, lastCall, histVars, arrivals, newestStamp, pollVars>>

\* ------------------------------------------------- peer connection events
\* updateConnectionState() (lines 180-189), reading the connection states
\* of the peer connections the fields refer to now; failed tells, per
\* attempt, whether a peer connection reports "failed" after the event.
updateConnectionState(failed) ==
    LET pc1Failed == pc1 # 0 /\ pc1State[pc1] = "open" /\ failed[pc1]
        pc2Failed == pc2 # 0 /\ pc2State[pc2] = "open" /\ failed[pc2]
    IN  IF pc1Failed \/ pc2Failed
        THEN /\ connectionState' = "failed"
             /\ rafQueue' = MarkEnded(rafQueue, "failed")
        ELSE UNCHANGED <<connectionState, rafQueue>>

\* onconnectionstatechange of an open peer connection of attempt s (lines
\* 80-86): which = 1 is the sender, 2 the receiver; toFailed tells whether
\* the new connection state is "failed" or another state.
ConnectionStateChange(s, which, toFailed) ==
    /\ BetweenTasks
    /\ which = 1 => pc1State[s] = "open"
    /\ which = 2 => pc2State[s] = "open"
    /\ pcFailed' = IF toFailed THEN [pcFailed EXCEPT ![s] = TRUE] ELSE pcFailed
    /\ updateConnectionState(pcFailed')
    /\ UNCHANGED <<receivedPose, packetsSent, packetsReceived, latencyMs,
                   avgLatencyMs, latencyHistory, pc1, pc2, dataChannel,
                   nextSession, pc1State, pc2State, chanState, closeEv,
                   connTask, awaitOn, inflight, smState, now, lastCall, histVars, arrivals, newestStamp, pollVars>>

\* ------------------------------------------------------------------ send
\* The body of sendPose(axes) (lines 170-178); the message carries the
\* channel it was sent on and its number on that channel.
\* Variant of sendPose(axes) that tests the channel for null only, not its
\* readyState.
sendPoseBodyAnyReadyState(axes) ==
    IF dataChannel = 0
    THEN UNCHANGED <<packetsSent, inflight>>
    ELSE /\ inflight' = inflight \cup
                {[chan |-> dataChannel, seq |-> packetsSent + 1,
                  data |-> packPose(axes, now)]}
         /\ packetsSent' = packetsSent + 1

sendPoseBody(axes) ==
    IF dataChannel = 0 \/ chanState[dataChannel] # "open"
    THEN UNCHANGED <<packetsSent, inflight>>
    ELSE /\ inflight' = inflight \cup
                {[chan |-> dataChannel, seq |-> packetsSent + 1,
                  data |-> packPose(axes, now)]}
         /\ packetsSent' = packetsSent + 1

sendPose(axes) ==
    /\ Called("sendPose")
    /\ UNCHANGED <<histVars, arrivals, newestStamp, pollVars>>
    /\ (dataChannel # 0 /\ chanState[dataChannel] = "open") => packetsSent < MaxSent
    /\ sendPoseBody(axes)
    /\ UNCHANGED <<connectionState, receivedPose, packetsReceived, latencyMs,
                   avgLatencyMs, latencyHistory, pc1, pc2, dataChannel,
                   nextSession, pc1State, pc2State, pcFailed, chanState, closeEv,
                   connTask, awaitOn, rafQueue, smState, now>>

\* sendPose(axes) by a caller that sends the next pose once the previous one
\* was delivered.
sendPoseInTurn(axes) ==
    /\ Called("sendPose")
    /\ UNCHANGED <<histVars, arrivals, newestStamp, pollVars>>
    /\ inflight = {}
    /\ packetsSent < MaxWindowSent
    /\ sendPoseBody(axes)
    /\ UNCHANGED <<connectionState, receivedPose, packetsReceived, latencyMs,
                   avgLatencyMs, latencyHistory, pc1, pc2, dataChannel,
                   nextSession, pc1State, pc2State, pcFailed, chanState, closeEv,
                   connTask, awaitOn, rafQueue, smState, now>>

\* Variant of sendLoop without the comparison of the timestamps.
sendLoopNoDedup ==
    /\ BetweenTasks
    /\ rafQueue # <<>>
    /\ LET loop == Head(rafQueue) IN
       IF connectionState # "connected"
       THEN /\ rafQueue' = Tail(rafQueue)
            /\ UNCHANGED <<packetsSent, inflight>>
       ELSE IF smState.connected
            THEN /\ packetsSent < MaxSent
                 /\ sendPoseBody(smState.axes)
                 /\ rafQueue' = Append(Tail(rafQueue),
                        [loop EXCEPT !.lastTimestamp = smState.timestamp])
            ELSE /\ rafQueue' = Append(Tail(rafQueue), loop)
                 /\ UNCHANGED <<packetsSent, inflight>>
    /\ UNCHANGED <<connectionState, receivedPose, packetsReceived, latencyMs,
                   avgLatencyMs, latencyHistory, pc1, pc2, dataChannel,
                   nextSession, pc1State, pc2State, pcFailed, chanState, closeEv,
                   connTask, awaitOn, smState, now, lastCall, histVars, arrivals, newestStamp, pollVars>>

\* One run of the oldest registered frame callback, sendLoop (lines
\* 196-208): it returns when the state is not connected, otherwise sends a
\* sample with a new timestamp and registers itself again.
sendLoop ==
    /\ BetweenTasks
    /\ rafQueue # <<>>
    /\ LET loop == Head(rafQueue) IN
       IF connectionState # "connected"
       THEN /\ rafQueue' = Tail(rafQueue)
            /\ UNCHANGED <<packetsSent, inflight>>
       ELSE IF smState.connected /\ smState.timestamp # loop.lastTimestamp
            THEN /\ packetsSent < MaxSent
                 /\ sendPoseBody(smState.axes)
                 /\ rafQueue' = Append(Tail(rafQueue),
                        [loop EXCEPT !.lastTimestamp = smState.timestamp])
            ELSE /\ rafQueue' = Append(Tail(rafQueue), loop)
                 /\ UNCHANGED <<packetsSent, inflight>>
    /\ UNCHANGED <<connectionState, receivedPose, packetsReceived, latencyMs,
                   avgLatencyMs, latencyHistory, pc1, pc2, dataChannel,
                   nextSession, pc1State, pc2State, pcFailed, chanState, closeEv,
                   connTask, awaitOn, smState, now, lastCall, histVars, arrivals, newestStamp, pollVars>>

\* --------------------------------------------------------------- receive
\* Variant of handleReceivedData(data) that counts the packet before it
\* decodes it.
handleReceivedDataCountsFirst(data) ==
    LET receiveTime == now
        unpacked == unpackPoseWithTimestamp(data)
    IN  IF Threw(unpacked)
        THEN /\ packetsReceived' = packetsReceived + 1
             /\ UNCHANGED <<receivedPose, latencyMs, avgLatencyMs, latencyHistory>>
        ELSE LET latency == receiveTime - unpacked.timestamp
                 pushed == Append(latencyHistory, latency)
                 history == IF Len(pushed) > LATENCY_HISTORY_SIZE
                            THEN Tail(pushed) ELSE pushed
             IN  /\ latencyHistory' = history
                 /\ receivedPose' = Some(unpacked.axes)
                 /\ packetsReceived' = packetsReceived + 1
                 /\ latencyMs' = Some(latency)
                 /\ avgLatencyMs' = Some(<<SumSeq(history), Len(history)>>)

\* Variant of handleReceivedData(data) that publishes the send time as the
\* latency.
handleReceivedDataSendTime(data) ==
    LET receiveTime == now
        unpacked == unpackPoseWithTimestamp(data)
    IN  IF Threw(unpacked)
        THEN UNCHANGED <<receivedPose, packetsReceived, latencyMs,
                         avgLatencyMs, latencyHistory>>
        ELSE LET latency == unpacked.timestamp
                 pushed == Append(latencyHistory, latency)
                 history == IF Len(pushed) > LATENCY_HISTORY_SIZE
                            THEN Tail(pushed) ELSE pushed
             IN  /\ latencyHistory' = history
                 /\ receivedPose' = Some(unpacked.axes)
                 /\ packetsReceived' = packetsReceived + 1
                 /\ latencyMs' = Some(latency)
                 /\ avgLatencyMs' = Some(<<SumSeq(history), Len(history)>>)

\* Variant of handleReceivedData(data) whose window evicts the newest
\* latency instead of the oldest.
handleReceivedDataEvictsNewest(data) ==
    LET receiveTime == now
        unpacked == unpackPoseWithTimestamp(data)
    IN  IF Threw(unpacked)
        THEN UNCHANGED <<receivedPose, packetsReceived, latencyMs,
                         avgLatencyMs, latencyHistory>>
        ELSE LET latency == receiveTime - unpacked.timestamp
                 pushed == Append(latencyHistory, latency)
                 history == IF Len(pushed) > LATENCY_HISTORY_SIZE
                            THEN latencyHistory ELSE pushed
             IN  /\ latencyHistory' = history
                 /\ receivedPose' = Some(unpacked.axes)
                 /\ packetsReceived' = packetsReceived + 1
                 /\ latencyMs' = Some(latency)
                 /\ avgLatencyMs' = Some(<<SumSeq(history), Len(history)>>)

\* Variant of handleReceivedData(data) that subtracts the receive time from
\* the send time.
handleReceivedDataReversed(data) ==
    LET receiveTime == now
        unpacked == unpackPoseWithTimestamp(data)
    IN  IF Threw(unpacked)
        THEN UNCHANGED <<receivedPose, packetsReceived, latencyMs,
                         avgLatencyMs, latencyHistory>>
        ELSE LET latency == unpacked.timestamp - receiveTime
                 pushed == Append(latencyHistory, latency)
                 history == IF Len(pushed) > LATENCY_HISTORY_SIZE
                            THEN Tail(pushed) ELSE pushed
             IN  /\ latencyHistory' = history
                 /\ receivedPose' = Some(unpacked.axes)
                 /\ packetsReceived' = packetsReceived + 1
                 /\ latencyMs' = Some(latency)
                 /\ avgLatencyMs' = Some(<<SumSeq(history), Len(history)>>)

\* Variant of handleReceivedData(data) that never evicts a sample from the
\* latency window.
handleReceivedDataNoEviction(data) ==
    LET receiveTime == now
        unpacked == unpackPoseWithTimestamp(data)
    IN  IF Threw(unpacked)
        THEN UNCHANGED <<receivedPose, packetsReceived, latencyMs,
                         avgLatencyMs, latencyHistory>>
        ELSE LET latency == receiveTime - unpacked.timestamp
                 history == Append(latencyHistory, latency)
             IN  /\ latencyHistory' = history
                 /\ receivedPose' = Some(unpacked.axes)
                 /\ packetsReceived' = packetsReceived + 1
                 /\ latencyMs' = Some(latency)
                 /\ avgLatencyMs' = Some(<<SumSeq(history), Len(history)>>)

\* handleReceivedData(data) (lines 222-249).
handleReceivedData(data) ==
    LET receiveTime == now
        unpacked == unpackPoseWithTimestamp(data)
    IN  IF Threw(unpacked)
        THEN UNCHANGED <<receivedPose, packetsReceived, latencyMs,
                         avgLatencyMs, latencyHistory>>
        ELSE LET latency == receiveTime - unpacked.timestamp
                 pushed == Append(latencyHistory, latency)
                 history == IF Len(pushed) > LATENCY_HISTORY_SIZE
                            THEN Tail(pushed) ELSE pushed
             IN  /\ latencyHistory' = history
                 /\ receivedPose' = Some(unpacked.axes)
                 /\ packetsReceived' = packetsReceived + 1
                 /\ latencyMs' = Some(latency)
                 /\ avgLatencyMs' = Some(<<SumSeq(history), Len(history)>>)

\* receiveChannel.onmessage (lines 118-120) for a message in flight on an
\* open channel; the channel is unordered, any message may come first.
Receive(m) ==
    /\ BetweenTasks
    /\ chanState[m.chan] = "open"
    /\ inflight' = inflight \ {m}
    /\ handleReceivedData(m.data)
    /\ arrivals' = IF Threw(unpackPoseWithTimestamp(m.data))
                   THEN arrivals
                   ELSE Append(arrivals, now - unpackPoseWithTimestamp(m.data).timestamp)
    /\ newestStamp' = IF Threw(unpackPoseWithTimestamp(m.data))
                      THEN newestStamp
                      ELSE IF newestStamp # Null
                              /\ newestStamp[1] >= unpackPoseWithTimestamp(m.data).timestamp
                           THEN newestStamp
                           ELSE Some(unpackPoseWithTimestamp(m.data).timestamp)
    /\ UNCHANGED <<connectionState, packetsSent, pc1, pc2, dataChannel,
                   nextSession, pc1State, pc2State, pcFailed, chanState, closeEv,
                   connTask, awaitOn, rafQueue, smState, now, lastCall, histVars,
                   pollVars>>

\* Buffers that are not Layout B packets: 10 bytes, a Layout A packet of 24
\* bytes, and one byte more than a Layout B packet.
MalformedBuffers ==
    {[byteLength |-> n, timestamp |-> 0, axes |-> ZeroAxes] : n \in {10, 24, 33}}

\* receiveChannel.onmessage (lines 118-120) for a buffer that the peer of an
\* open channel sent and that is no Layout B packet.
ReceiveMalformed(buffer) ==
    /\ BetweenTasks
    /\ \E s \in Sessions : chanState[s] = "open"
    /\ handleReceivedData(buffer)
    /\ droppedAt' = Some(packetsReceived)
    /\ UNCHANGED <<connectionState, packetsSent, pc1, pc2, dataChannel,
                   nextSession, pc1State, pc2State, pcFailed, chanState, closeEv,
                   connTask, awaitOn, rafQueue, inflight, smState, now, lastCall,
                   codecCall, arrivals, newestStamp, pollVars>>

\* ----------------------------------------------------------- environment
\* The SpaceMouseService publishes a new sample, stamped with the clock.
SampleUpdate(axes) ==
    /\ BetweenTasks
    /\ smState' = [connected |-> TRUE, axes |-> axes, timestamp |-> now]
    /\ smState' # smState
    /\ UNCHANGED <<svcVars, nextSession, pc1State, pc2State, pcFailed, chanState,
                   closeEv, connTask, awaitOn, rafQueue, inflight, now, lastCall, histVars, arrivals, newestStamp, pollVars>>

\* performance.now() advances.
Tick ==
    /\ now < MaxTime
    /\ now' = now + 1
    /\ UNCHANGED <<svcVars, nextSession, pc1State, pc2State, pcFailed, chanState,
                   closeEv, connTask, awaitOn, rafQueue, inflight, smState,
                   lastCall, histVars, arrivals, newestStamp, pollVars>>

\* The events of the browser that do not depend on the bound of the attempts.
SessionEvents ==
    \/ \E s \in Sessions : HandshakeResolve(s)
    \/ \E s \in Sessions : HandshakeReject(s)
    \/ \E s \in Sessions : ChannelOpen(s)
    \/ \E s \in Sessions : TransportClosed(s)
    \/ \E s \in Sessions : TransportError(s)
    \/ \E s \in Sessions : ChannelCloseEvent(s)
    \/ \E s \in Sessions, which \in {1, 2}, toFailed \in BOOLEAN :
           ConnectionStateChange(s, which, toFailed)

DataEvents ==
    \/ \E axes \in AxesSet : sendPose(axes)
    \/ sendLoop
    \/ \E m \in inflight : Receive(m)
    \/ SampleUpdate(ExtremeAxes)
    \/ Tick

\* The whole service, one connection attempt.
Next ==
    \/ connect
    \/ disconnect
    \/ SessionEvents
    \/ DataEvents

Spec == Init /\ [][Next]_vars

\* The whole service across a reconnect.
NextReconnect ==
    \/ connectSession
    \/ disconnect
    \/ SessionEvents
    \/ DataEvents

SpecReconnect == Init /\ [][NextReconnect]_vars

\* The session life cycle alone: no pose is sent.
NextSession ==
    \/ connectSession
    \/ disconnect
    \/ SessionEvents

SpecSession == Init /\ [][NextSession]_vars

\* The session life cycle with a third attempt.
NextStale ==
    \/ connectStale
    \/ disconnect
    \/ SessionEvents

SpecStale == Init /\ [][NextStale]_vars

\* The session life cycle with a third attempt, and the send loops.
NextStaleLoop ==
    \/ connectStale
    \/ disconnect
    \/ SessionEvents
    \/ sendLoop
    \/ SampleUpdate(ExtremeAxes)
    \/ Tick

SpecStaleLoop == Init /\ [][NextStaleLoop]_vars

\* The session life cycle with a third attempt, and poses sent by sendPose
\* and delivered.
NextStaleData ==
    \/ connectStale
    \/ disconnect
    \/ SessionEvents
    \/ sendPose(ZeroAxes)
    \/ \E m \in inflight : Receive(m)

SpecStaleData == Init /\ [][NextStaleData]_vars

\* The receive path: one attempt, poses sent by sendPose only, and a peer
\* that also sends malformed buffers.
NextReceive ==
    \/ connect
    \/ disconnect
    \/ SessionEvents
    \/ \E axes \in AxesSet : sendPose(axes)
    \/ \E m \in inflight : Receive(m)
    \/ \E buffer \in MalformedBuffers : ReceiveMalformed(buffer)
    \/ Tick

SpecReceive == Init /\ [][NextReceive]_vars

\* The latency window: one successful attempt at a time and a caller of
\* sendPose that waits for each delivery, so that more packets are received
\* than the window holds.
NextWindow ==
    \/ connect
    \/ disconnect
    \/ \E s \in Sessions : HandshakeResolve(s)
    \/ \E s \in Sessions : ChannelOpen(s)
    \/ sendPoseInTurn(ZeroAxes)
    \/ \E m \in inflight : Receive(m)
    \/ Tick

SpecWindow == Init /\ [][NextWindow]_vars

\* The unordered channel: one successful attempt at a time and a caller of
\* sendPose that sends up to MaxBurst poses without waiting for a delivery,
\* so that two packets are in flight and either may come first.
MaxBurst == 2

sendPoseBurst(axes) ==
    /\ Called("sendPose")
    /\ UNCHANGED <<histVars, arrivals, newestStamp, pollVars>>
    /\ packetsSent < MaxBurst
    /\ sendPoseBody(axes)
    /\ UNCHANGED <<connectionState, receivedPose, packetsReceived, latencyMs,
                   avgLatencyMs, latencyHistory, pc1, pc2, dataChannel,
                   nextSession, pc1State, pc2State, pcFailed, chanState, closeEv,
                   connTask, awaitOn, rafQueue, smState, now>>

NextUnordered ==
    \/ connect
    \/ disconnect
    \/ \E s \in Sessions : HandshakeResolve(s)
    \/ \E s \in Sessions : ChannelOpen(s)
    \/ \E axes \in {ZeroAxes, ExtremeAxes} : sendPoseBurst(axes)
    \/ \E m \in inflight : Receive(m)
    \/ Tick

SpecUnordered == Init /\ [][NextUnordered]_vars

\* The buffers handed to the decoders: a byte length, and the numbers that
\* the reads at the offsets of the layout give when the length allows them.
\* The lengths are the empty buffer, 10 bytes, the two packet sizes and
\* their neighbours.
BufferLengths ==
    {0, 10, POSE_PACKET_SIZE_LAYOUT_A, POSE_PACKET_SIZE - 1, POSE_PACKET_SIZE,
     POSE_PACKET_SIZE + 1}
Buffers ==
    [byteLength : BufferLengths, timestamp : 0..MaxTime,
     axes : {ZeroAxes, ExtremeAxes, Float32Axes(InexactAxes)}]

\* A caller hands buffer to one of the three decoders; codecCall records
\* the decoder, the buffer and what the call returned or threw.
CallUnpack(fn, buffer) ==
    /\ codecCall' =
          [fn |-> fn, buffer |-> buffer,
           result |-> CASE fn = "unpackPose (Layout A)" -> unpackPoseLayoutA(buffer)
                        [] fn = "unpackPose (Layout B)" -> unpackPose(buffer)
                        [] fn = "unpackPoseWithTimestamp" -> unpackPoseWithTimestamp(buffer)]
    /\ UNCHANGED <<svcVars, envVars, lastCall, droppedAt, arrivals, newestStamp, pollVars>>

\* The decoders alone, on buffers of every length of BufferLengths.
NextCodec ==
    \/ \E buffer \in Buffers : CallUnpack("unpackPose (Layout A)", buffer)
    \/ \E buffer \in Buffers : CallUnpack("unpackPose (Layout B)", buffer)
    \/ \E buffer \in Buffers : CallUnpack("unpackPoseWithTimestamp", buffer)

SpecCodec == Init /\ [][NextCodec]_vars

\* The inputs of the encoders: the poses, clock readings up to MaxTime and
\* two later ones, and reuse buffers of 16, 32 and 64 bytes (or none).
Poses == {ZeroAxes, ExtremeAxes, InexactAxes}
Timestamps == 0..MaxTime \cup {1000, 2^20 + 1}
Filled(n) == [i \in 1..n |-> 170]
ReuseBuffers == {Null} \cup {Some(Filled(n)) : n \in {16, POSE_PACKET_SIZE, 64}}

\* A caller packs a pose with Layout B.
CallPackPose(axes, timestamp, reuseBuffer) ==
    /\ \E buffer \in {packPoseBytes(axes, timestamp, reuseBuffer)} :
          codecCall' = [fn |-> "packPose (Layout B)", axes |-> axes,
                        timestamp |-> timestamp, reuseBuffer |-> reuseBuffer,
                        result |-> buffer]
    /\ UNCHANGED <<svcVars, envVars, lastCall, droppedAt, arrivals, newestStamp, pollVars>>

\* A caller packs a pose with Layout A on a little-endian or big-endian
\* host.
CallPackPoseLayoutA(axes, littleEndianHost) ==
    /\ \E buffer \in {packPoseLayoutA(axes, littleEndianHost)} :
          codecCall' = [fn |-> "packPose (Layout A)", axes |-> axes,
                        littleEndianHost |-> littleEndianHost,
                        result |-> buffer]
    /\ UNCHANGED <<svcVars, envVars, lastCall, droppedAt, arrivals, newestStamp, pollVars>>

\* A caller packs a pose and timestamp with Layout B and decodes the
\* buffer with unpackPoseWithTimestamp.
CallRoundTrip(axes, timestamp) ==
    /\ \E buffer \in {packPoseBytes(axes, timestamp, Null)} :
          codecCall' =
             [fn |-> "unpackPoseWithTimestamp(packPose)", axes |-> axes,
              timestamp |-> timestamp,
              result |-> unpackPoseWithTimestamp(DataViewOf(buffer))]
    /\ UNCHANGED <<svcVars, envVars, lastCall, droppedAt, arrivals, newestStamp, pollVars>>

\* A caller packs a pose with packPose of a layout and decodes the buffer
\* with unpackPose of the same layout on the same host.
CallRoundTripAxes(layout, axes, timestamp, littleEndianHost) ==
    /\ \E buffer \in {packPoseOf(layout, axes, littleEndianHost, timestamp)} :
          codecCall' =
             [fn |-> "unpackPose(packPose)", layout |-> layout, axes |-> axes,
              timestamp |-> timestamp, littleEndianHost |-> littleEndianHost,
              result |->
                 IF layout = "A"
                 THEN unpackPoseLayoutA(Float32ArrayOf(buffer, littleEndianHost))
                 ELSE unpackPose(DataViewOf(buffer))]
    /\ UNCHANGED <<svcVars, envVars, lastCall, droppedAt, arrivals, newestStamp, pollVars>>

\* The most writes into one target array.
MaxWrites == 2

\* The offsets a caller writes at and reads from, in a target that holds
\* two packets and eight bytes more: the start, an offset that overlaps the
\* first packet, the second packet, and one that leaves too little room.
Offsets(layout) == {0, 8, PacketSize(layout), 2 * PacketSize(layout)}

\* A caller allocates the target array for the packets of one layout.
\* array is the Uint8Array the caller holds, packets the poses written into
\* it and not overwritten since.
AllocateTarget(layout, littleEndianHost) ==
    /\ codecCall' =
          [fn |-> "new Uint8Array", layout |-> layout,
           littleEndianHost |-> littleEndianHost,
           array |-> Filled(2 * PacketSize(layout) + 8),
           packets |-> {}, writes |-> 0]
    /\ UNCHANGED <<svcVars, envVars, lastCall, droppedAt, arrivals, newestStamp, pollVars>>

\* The caller writes a pose into its array at an offset.
CallPackPoseToUint8Array(axes, offset) ==
    /\ "array" \in DOMAIN codecCall
    /\ codecCall.writes < MaxWrites
    /\ offset \in Offsets(codecCall.layout)
    /\ \E packed \in {packPoseOf(codecCall.layout, axes,
                                  codecCall.littleEndianHost, now)} :
       \E result \in {packPoseToUint8Array(packed, Some(codecCall.array), offset)} :
       LET layout == codecCall.layout
           size == PacketSize(layout)
           kept == {q \in codecCall.packets :
                      q.offset + size <= offset \/ offset + size <= q.offset}
       IN  codecCall' =
                 [fn |-> "packPoseToUint8Array", layout |-> layout,
                  littleEndianHost |-> codecCall.littleEndianHost,
                  target |-> codecCall.array, axes |-> axes, offset |-> offset,
                  result |-> result,
                  array |-> IF Threw(result) THEN codecCall.array ELSE result.bytes,
                  packets |-> IF Threw(result) THEN codecCall.packets
                              ELSE kept \cup {[offset |-> offset, axes |-> axes]},
                  writes |-> codecCall.writes + 1]
    /\ UNCHANGED <<svcVars, envVars, lastCall, droppedAt, arrivals, newestStamp, pollVars>>

\* The caller decodes the packet at an offset of its array.
CallUnpackPoseFromUint8Array(offset) ==
    /\ "array" \in DOMAIN codecCall
    /\ offset \in Offsets(codecCall.layout)
    /\ codecCall' =
          [fn |-> "unpackPoseFromUint8Array", layout |-> codecCall.layout,
           littleEndianHost |-> codecCall.littleEndianHost,
           array |-> codecCall.array, packets |-> codecCall.packets,
           writes |-> codecCall.writes, offset |-> offset,
           result |-> unpackPoseFromUint8Array(codecCall.layout, codecCall.array,
                                               offset, codecCall.littleEndianHost)]
    /\ UNCHANGED <<svcVars, envVars, lastCall, droppedAt, arrivals, newestStamp, pollVars>>

\* The encoders and decoders on bytes.
NextWire ==
    \/ \E axes \in Poses, timestamp \in Timestamps, reuseBuffer \in ReuseBuffers :
          CallPackPose(axes, timestamp, reuseBuffer)
    \/ \E axes \in Poses, littleEndianHost \in BOOLEAN :
          CallPackPoseLayoutA(axes, littleEndianHost)
    \/ \E axes \in Poses, timestamp \in Timestamps : CallRoundTrip(axes, timestamp)
    \/ \E layout \in {"A", "B"}, axes \in Poses, timestamp \in Timestamps,
          littleEndianHost \in BOOLEAN :
          CallRoundTripAxes(layout, axes, timestamp, littleEndianHost)

SpecWire == Init /\ [][NextWire]_vars

\* A caller that keeps packets in one array, while the clock advances.
NextArray ==
    \/ \E layout \in {"A", "B"}, littleEndianHost \in BOOLEAN :
          AllocateTarget(layout, littleEndianHost)
    \/ \E axes \in Poses, offset \in {0, 8, 24, 32, 48, 64} :
          CallPackPoseToUint8Array(axes, offset)
    \/ \E offset \in {0, 8, 24, 32, 48, 64} : CallUnpackPoseFromUint8Array(offset)
    \/ Tick

SpecArray == Init /\ [][NextArray]_vars

\* The inputs of applyDeadzone, in thousandths: values inside and outside
\* [-1, 1], on both sides of the thresholds and on them; the thresholds 0,
\* the default 0.1, 0.5, 1 and 2.
DeadzoneValues ==
    {-3000, -2000, -1500, -1000, -550, -100, -90, -50, 0, 50, 90, 100, 101,
     500, 550, 1000, 1500, 2000, 3000}
DeadzoneThresholds == {0, 100, 500, DeadzoneOne, 2 * DeadzoneOne}

\* The inputs of hasSignificantChange, in ten-thousandths (0.5 is 5000, the
\* default epsilon 0.001 is 10).
ChangeValues == {0, 5, 20, 4980, 4990, 4995, 5000, 5005, 5010, 5020}
Epsilons == {-10, 0, 10}

\* A caller filters a raw axis value.
CallApplyDeadzone(value, threshold) ==
    /\ codecCall' = [fn |-> "applyDeadzone", value |-> value,
                     threshold |-> threshold,
                     result |-> applyDeadzone(value, threshold)]
    /\ UNCHANGED <<svcVars, envVars, lastCall, droppedAt, arrivals, newestStamp, pollVars>>

\* A caller compares two numbers, in both orders.
CallHasSignificantChange(a, b, epsilon) ==
    /\ codecCall' = [fn |-> "hasSignificantChange", a |-> a, b |-> b,
                     epsilon |-> epsilon,
                     result |-> hasSignificantChange(a, b, epsilon),
                     swapped |-> hasSignificantChange(b, a, epsilon)]
    /\ UNCHANGED <<svcVars, envVars, lastCall, droppedAt, arrivals, newestStamp, pollVars>>

\* The deadzone filter and the change detector alone.
NextFilter ==
    \/ \E value \in DeadzoneValues, threshold \in DeadzoneThresholds :
          CallApplyDeadzone(value, threshold)
    \/ \E a \in ChangeValues, b \in ChangeValues, epsilon \in Epsilons :
          CallHasSignificantChange(a, b, epsilon)

SpecFilter == Init /\ [][NextFilter]_vars

\* The states and samples that hasStateChanged compares: axes that differ
\* from zero in tx or rz by exactly epsilon or by more, and button maps
\* over the indexes 0 and 1 with equal and different keys and values.
ComparedAxes ==
    {ZeroAxes, [ZeroAxes EXCEPT !.tx = DefaultEpsilon],
     [ZeroAxes EXCEPT !.tx = DefaultEpsilon + 1],
     [ZeroAxes EXCEPT !.rz = -(DefaultEpsilon + 1)]}
ComparedButtons ==
    {<<>>, (0 :> TRUE), (0 :> FALSE), (1 :> TRUE),
     (0 :> TRUE) @@ (1 :> FALSE), (0 :> TRUE) @@ (1 :> TRUE)}

\* The service compares its current state with a new sample.
CallHasStateChanged(current, newAxes, newButtons, connected) ==
    /\ codecCall' = [fn |-> "hasStateChanged", current |-> current,
                     newAxes |-> newAxes, newButtons |-> newButtons,
                     connected |-> connected,
                     result |-> hasStateChanged(current, newAxes, newButtons, connected),
                     resultHid |-> hasStateChangedHid(current, newAxes, newButtons)]
    /\ UNCHANGED <<svcVars, envVars, lastCall, droppedAt, arrivals, newestStamp, pollVars>>

\* The full-state comparison alone.
NextChange ==
    \E currentConnected \in BOOLEAN, currentButtons \in ComparedButtons,
       newAxes \in ComparedAxes, newButtons \in ComparedButtons,
       connected \in BOOLEAN :
       CallHasStateChanged([connected |-> currentConnected, axes |-> ZeroAxes,
                            buttons |-> currentButtons],
                           newAxes, newButtons, connected)

SpecChange == Init /\ [][NextChange]_vars

\* ------------------------------------ the Gamepad API SpaceMouseService
\* Number of requestAnimationFrame(this.poll) calls.
MaxFrames == 3

\* What the SpaceMouse reports after normalizeAxes (lines 470-480) and
\* normalizeButtons (lines 482-488): axes in ten-thousandths that lie within
\* epsilon of each other or further apart, and button maps with a key for
\* every button of the device.
PolledAxes ==
    {ZeroAxes, [ZeroAxes EXCEPT !.tx = 6],
     [ZeroAxes EXCEPT !.tx = DefaultEpsilon],
     [ZeroAxes EXCEPT !.tx = DefaultEpsilon + 6],
     [ZeroAxes EXCEPT !.rz = -DefaultEpsilon]}
PolledButtons == {(0 :> FALSE), (0 :> TRUE), (0 :> TRUE) @@ (1 :> FALSE)}
Samples == {[axes |-> a, buttons |-> b] : a \in PolledAxes, b \in PolledButtons}

\* The fields of the service and the frame requests of the browser, as the
\* methods below take them and give them back.
Service ==
    [state |-> state, isPolling |-> isPolling,
     animationFrameId |-> animationFrameId, frames |-> frames,
     nextFrameId |-> nextFrameId]

\* stopPolling() (lines 416-422).
stopPolling(svc) ==
    [svc EXCEPT !.isPolling = FALSE,
                !.animationFrameId = 0,
                !.frames = IF svc.animationFrameId # 0
                           THEN @ \ {svc.animationFrameId} ELSE @]

\* Variant of updateGamepadState() that publishes the axes of a changed
\* sample and keeps the buttons it has.
updateGamepadStateKeepsButtons(svc, pads) ==
    IF pads.spaceMouse = Null
    THEN stopPolling([svc EXCEPT !.state = IF svc.state.connected
                                           THEN createDefaultGamepadState ELSE @])
    ELSE LET gamepad == pads.spaceMouse[1]
             newAxes == gamepad.axes
             newButtons == gamepad.buttons
         IN  IF hasStateChanged(svc.state, newAxes, newButtons, TRUE)
             THEN [svc EXCEPT !.state = [connected |-> TRUE, axes |-> newAxes,
                                         buttons |-> svc.state.buttons]]
             ELSE svc

\* updateGamepadState() (lines 431-468) with pads what getGamepads()
\* returns; a gamepad that getGamepads() returns is connected.
updateGamepadState(svc, pads) ==
    IF pads.spaceMouse = Null
    THEN stopPolling([svc EXCEPT !.state = IF svc.state.connected
                                           THEN createDefaultGamepadState ELSE @])
    ELSE LET gamepad == pads.spaceMouse[1]
             newAxes == gamepad.axes
             newButtons == gamepad.buttons
         IN  IF hasStateChanged(svc.state, newAxes, newButtons, TRUE)
             THEN [svc EXCEPT !.state = [connected |-> TRUE, axes |-> newAxes,
                                         buttons |-> newButtons]]
             ELSE svc

\* this.animationFrameId = requestAnimationFrame(this.poll) (line 428).
requestAnimationFrame(svc) ==
    [svc EXCEPT !.animationFrameId = svc.nextFrameId,
                !.frames = @ \cup {svc.nextFrameId},
                !.nextFrameId = @ + 1]

\* poll() (lines 424-429).
poll(svc, pads) ==
    IF ~svc.isPolling THEN svc
    ELSE requestAnimationFrame(updateGamepadState(svc, pads))

\* startPolling() (lines 404-414).
startPolling(svc, pads) ==
    IF svc.isPolling THEN svc
    ELSE poll([svc EXCEPT !.isPolling = TRUE], pads)

\* onGamepadDisconnected (lines 393-402).
onGamepadDisconnected(svc, pads) ==
    IF pads.spaceMouse = Null /\ ~pads.other
    THEN [stopPolling(svc) EXCEPT !.state = createDefaultGamepadState]
    ELSE svc

\* The fields and the frame requests become those of svc.
Becomes(svc) ==
    /\ state' = svc.state
    /\ isPolling' = svc.isPolling
    /\ animationFrameId' = svc.animationFrameId
    /\ frames' = svc.frames
    /\ nextFrameId' = svc.nextFrameId

\* The record of the call of hasStateChanged that updateGamepadState() makes
\* when poll() runs it (ran) and getGamepads() returns a SpaceMouse.
Compared(ran, pads) ==
    IF ran /\ pads.spaceMouse # Null
    THEN [fn |-> "hasStateChanged", current |-> state,
          newAxes |-> pads.spaceMouse[1].axes,
          newButtons |-> pads.spaceMouse[1].buttons,
          connected |-> TRUE,
          result |-> hasStateChanged(state, pads.spaceMouse[1].axes,
                                     pads.spaceMouse[1].buttons, TRUE),
          resultHid |-> hasStateChangedHid(state, pads.spaceMouse[1].axes,
                                           pads.spaceMouse[1].buttons)]
    ELSE codecCall

\* A gamepad is plugged in, the SpaceMouse (with the sample it reports) or
\* another one (sample null): the gamepadconnected event runs
\* onGamepadConnected (lines 389-391).
GamepadConnected(sample) ==
    /\ nextFrameId <= MaxFrames
    /\ IF sample = Null THEN ~gamepads.other ELSE gamepads.spaceMouse = Null
    /\ \E pads \in {IF sample = Null
                    THEN [gamepads EXCEPT !.other = TRUE]
                    ELSE [gamepads EXCEPT !.spaceMouse = sample]} :
          /\ gamepads' = pads
          /\ codecCall' = Compared(~isPolling, pads)
          /\ \E svc \in {startPolling(Service, pads)} : Becomes(svc)
    /\ UNCHANGED <<svcVars, envVars, lastCall, droppedAt, arrivals, newestStamp>>

\* A gamepad is unplugged: the gamepaddisconnected event runs
\* onGamepadDisconnected.
GamepadDisconnected(which) ==
    /\ IF which = "other" THEN gamepads.other ELSE gamepads.spaceMouse # Null
    /\ \E pads \in {IF which = "other"
                    THEN [gamepads EXCEPT !.other = FALSE]
                    ELSE [gamepads EXCEPT !.spaceMouse = Null]} :
          /\ gamepads' = pads
          /\ \E svc \in {onGamepadDisconnected(Service, pads)} : Becomes(svc)
    /\ UNCHANGED <<svcVars, envVars, lastCall, histVars, arrivals, newestStamp>>

\* The SpaceMouse reports another sample.
GamepadInput(sample) ==
    /\ gamepads.spaceMouse # Null
    /\ gamepads.spaceMouse # Some(sample)
    /\ gamepads' = [gamepads EXCEPT !.spaceMouse = Some(sample)]
    /\ UNCHANGED <<state, isPolling, animationFrameId, frames, nextFrameId>>
    /\ UNCHANGED <<svcVars, envVars, lastCall, histVars, arrivals, newestStamp>>

\* The browser runs the requested frame callback id, which is poll.
PollFrame(id) ==
    /\ id \in frames
    /\ nextFrameId <= MaxFrames
    /\ \E svc \in {poll([Service EXCEPT !.frames = @ \ {id}], gamepads)} :
          Becomes(svc)
    /\ codecCall' = Compared(isPolling, gamepads)
    /\ UNCHANGED gamepads
    /\ UNCHANGED <<svcVars, envVars, lastCall, droppedAt, arrivals, newestStamp>>

\* The Gamepad API service, its gamepads and its frame callbacks.
NextPolling ==
    \/ \E sample \in {Null} \cup {Some(s) : s \in Samples} : GamepadConnected(sample)
    \/ \E which \in {"other", "spaceMouse"} : GamepadDisconnected(which)
    \/ \E sample \in Samples : GamepadInput(sample)
    \/ \E id \in frames : PollFrame(id)

SpecPolling == Init /\ [][NextPolling]_vars

\* ------------------------------------------- the WebRTC debugger component
\* The template offers the Connect Loopback button in the states
\* disconnected and failed (lines 18-22 of the component).
ConnectOffered == connectionState \in {"disconnected", "failed"}

\* A click on the offered button: the component's connect() (lines 383-385)
\* awaits the service's connect().
ClickConnect == ConnectOffered /\ connectSession

\* ------------------------------------------------------------------ claims
\* C1: a call of connect() in a state other than disconnected (connecting,
\* connected or failed) is a no-op: the signals, the latency window, the
\* peer connection and channel fields and every browser object are
\* unchanged, and no new peer connection or channel is created.
C1_ConnectNoOp ==
    [][(connectSession /\ connectionState # "disconnected")
          => UNCHANGED <<svcVars, envVars>>]_vars

\* connect() was called on a connected session, which is still connected.
C1_Witness ==
    /\ lastCall = [op |-> "connect", from |-> "connected"]
    /\ connectionState = "connected"
    /\ dataChannel # 0
    /\ nextSession <= MaxSessions

\* C2: disconnect(), called in any state, returns with the state
\* disconnected, the counters 0, receivedPose and the two latency signals
\* null, the latency window empty, the three fields null and the channel
\* and the peer connections they referred to closed.
C2_DisconnectResets ==
    [][disconnect =>
         /\ connectionState' = "disconnected"
         /\ packetsSent' = 0
         /\ packetsReceived' = 0
         /\ receivedPose' = Null
         /\ latencyMs' = Null
         /\ avgLatencyMs' = Null
         /\ latencyHistory' = <<>>
         /\ dataChannel' = 0
         /\ pc1' = 0
         /\ pc2' = 0
         /\ dataChannel # 0 => chanState'[dataChannel] = "closed"
         /\ pc1 # 0 => pc1State'[pc1] = "closed"
         /\ pc2 # 0 => pc2State'[pc2] = "closed"]_vars

\* disconnect() was called on a connected session: its channel was closed
\* by the call (the close event is still queued) and so were its peer
\* connections.
C2_Witness ==
    /\ lastCall = [op |-> "disconnect", from |-> "connected"]
    /\ connectionState = "disconnected"
    /\ packetsSent = 0
    /\ \E s \in Sessions :
          /\ chanState[s] = "closed"
          /\ closeEv[s]
          /\ pc1State[s] = "closed"
          /\ pc2State[s] = "closed"

\* C3: a frame callback of a send loop whose Connected period is over (the
\* state has left connected since the loop was started) sends nothing and
\* registers no further callback, also when the state is connected again.
C3_EndedLoopStops ==
    [][(sendLoop /\ Head(rafQueue).ended)
          => (rafQueue' = Tail(rafQueue) /\ UNCHANGED <<packetsSent, inflight>>)]_vars

\* C4: when a step of the offer/answer exchange of the current attempt
\* fails, connect() completes with the state failed.
C4_FailureSurfacesAsFailed ==
    [][\A s \in Sessions :
          (/\ connTask[s] \in 1..LastStep
           /\ connTask'[s] = Caught
           /\ dataChannel = s
           /\ connectionState = "connecting")
          => connectionState' = "failed"]_vars

\* C5: when a step of the exchange of an attempt fails, the channel and the
\* two peer connections that attempt created are closed, the fields are
\* null and the statistics are reset.
C5_FailureCleansUp ==
    [][\A s \in Sessions :
          (connTask[s] \in 1..LastStep /\ connTask'[s] = Caught)
          => /\ chanState'[s] = "closed"
             /\ pc1State'[s] = "closed"
             /\ pc2State'[s] = "closed"
             /\ dataChannel' = 0
             /\ pc1' = 0
             /\ pc2' = 0
             /\ packetsSent' = 0
             /\ packetsReceived' = 0
             /\ receivedPose' = Null
             /\ latencyMs' = Null
             /\ avgLatencyMs' = Null
             /\ latencyHistory' = <<>>]_vars

\* C6: as long as disconnect(), called while connecting, is the last public
\* call, the state is disconnected and the service holds no peer
\* connection and no channel.
C6_DisconnectCancels ==
    lastCall = [op |-> "disconnect", from |-> "connecting"]
       => /\ connectionState = "disconnected"
          /\ dataChannel = 0
          /\ pc1 = 0
          /\ pc2 = 0

\* C7: right after every connect() that moves the state from disconnected
\* to connecting the counters are 0, receivedPose and the latency signals
\* are null and the latency window is empty.
C7_FreshOnConnect ==
    [][(connectSession /\ connectionState = "disconnected")
          => /\ connectionState' = "connecting"
             /\ packetsSent' = 0
             /\ packetsReceived' = 0
             /\ receivedPose' = Null
             /\ latencyMs' = Null
             /\ avgLatencyMs' = Null
             /\ latencyHistory' = <<>>]_vars

\* C8: every change of connectionState is an edge of the diagram:
\* disconnected to connecting, connecting to connected, connecting to
\* failed, and connecting, connected or failed to disconnected.
C8_DiagramEdges ==
    [][connectionState' # connectionState
          => <<connectionState, connectionState'>> \in
                {<<"disconnected", "connecting">>,
                 <<"connecting", "connected">>,
                 <<"connecting", "failed">>,
                 <<"connecting", "disconnected">>,
                 <<"connected", "disconnected">>,
                 <<"failed", "disconnected">>}]_vars

\* C9 as stated: while the state is connected, the closed event and the
\* error event of the transport each move the state to disconnected.
C9_ClosedAndErrorDisconnect ==
    [][(/\ connectionState = "connected"
        /\ \E s \in Sessions : TransportClosed(s) \/ TransportError(s))
          => connectionState' = "disconnected"]_vars

\* C9 amended: while the state is connected, the closed event of the
\* transport moves the state to disconnected; the error event leaves the
\* state connected and the close event that follows it moves the state to
\* disconnected.
C9_ClosedDisconnectsErrorDefers ==
    [][connectionState = "connected"
          => \A s \in Sessions :
                /\ TransportClosed(s) => connectionState' = "disconnected"
                /\ TransportError(s) => (connectionState' = "connected" /\ closeEv'[s])
                /\ ChannelCloseEvent(s) => connectionState' = "disconnected"]_vars

\* The error event of the channel of the connected session was delivered:
\* the channel is closed, its close event is queued and the state is still
\* connected.
C9_Witness ==
    /\ connectionState = "connected"
    /\ \E s \in Sessions :
          /\ dataChannel = s
          /\ chanState[s] = "closed"
          /\ closeEv[s]

\* C10: sendPose(axes) called when the channel field is null or the
\* channel is not open sends nothing and changes neither packetsSent nor
\* any other signal, field or browser object.
C10_SendPoseDrops ==
    [][(/\ \E axes \in AxesSet : sendPose(axes)
        /\ (dataChannel = 0 \/ chanState[dataChannel] # "open"))
          => UNCHANGED <<svcVars, envVars>>]_vars

\* sendPose was called while the channel of the attempt was still
\* connecting, and nothing was sent.
C10_Witness ==
    /\ lastCall = [op |-> "sendPose", from |-> "connecting"]
    /\ dataChannel # 0
    /\ chanState[dataChannel] = "connecting"
    /\ packetsSent = 0
    /\ inflight = {}

\* C11: a call of sendPose in a state whose connectionState is not
\* connected puts nothing in flight and leaves packetsSent unchanged.
C11_NoSendUnlessConnected ==
    [][(/\ \E axes \in AxesSet : sendPose(axes)
        /\ connectionState # "connected")
          => UNCHANGED <<packetsSent, inflight>>]_vars

\* C12: a received buffer whose byte length is not 32 is discarded: the
\* counters, receivedPose, the two latency signals, the latency window and
\* connectionState are unchanged (and so is everything else the service
\* holds), and a valid packet received afterwards is still counted and
\* published.
C12_MalformedDiscarded ==
    [][/\ \A buffer \in MalformedBuffers :
             ReceiveMalformed(buffer) => UNCHANGED <<svcVars, envVars>>
       /\ \A m \in inflight :
             (Receive(m) /\ droppedAt # Null)
                => /\ packetsReceived' = packetsReceived + 1
                   /\ receivedPose' = Some(m.data.axes)]_vars

\* A malformed buffer was discarded before any packet was received, and a
\* valid packet was received after it.
C12_Witness ==
    /\ droppedAt = Some(0)
    /\ packetsReceived = 1
    /\ receivedPose # Null
    /\ connectionState = "connected"

\* C13: the step that receives a buffer that decodes increases
\* packetsReceived by exactly one, publishes the decoded pose in
\* receivedPose and publishes receive time minus decoded send timestamp in
\* latencyMs.
C13_ReceivePublishes ==
    [][\A m \in inflight :
          LET decoded == unpackPoseWithTimestamp(m.data) IN
          (Receive(m) /\ ~Threw(decoded))
             => /\ packetsReceived' = packetsReceived + 1
                /\ receivedPose' = Some(decoded.axes)
                /\ latencyMs' = Some(now - decoded.timestamp)]_vars

\* A packet sent at time 0 was received at time 1.
C13_Witness ==
    /\ packetsReceived = 1
    /\ receivedPose # Null
    /\ latencyMs = Some(1)
    /\ now = 1

\* C14: after n >= 1 valid packets received since the last disconnect(),
\* the latency window holds the latencies of the most recent min(n, 30)
\* packets in arrival order and avgLatencyMs is their sum over their
\* number.
C14_WindowMean ==
    LET n == Len(arrivals)
        k == IF n < LATENCY_HISTORY_SIZE THEN n ELSE LATENCY_HISTORY_SIZE
        recent == SubSeq(arrivals, n - k + 1, n)
    IN  n >= 1 => /\ latencyHistory = recent
                  /\ avgLatencyMs = Some(<<SumSeq(recent), k>>)

\* 31 packets were received, the first with latency 1 and the others with
\* latency 0: the first no longer contributes to the average.
C14_Witness ==
    /\ Len(arrivals) = LATENCY_HISTORY_SIZE + 1
    /\ arrivals[1] = 1
    /\ avgLatencyMs = Some(<<0, LATENCY_HISTORY_SIZE>>)
    /\ packetsReceived = LATENCY_HISTORY_SIZE + 1

\* C15: an iteration of a send loop in which the timestamp of the latest
\* sample equals the timestamp of the last sample the loop sent puts
\* nothing in flight and leaves packetsSent unchanged.
C15_DedupGate ==
    [][(sendLoop /\ smState.timestamp = Head(rafQueue).lastTimestamp)
          => UNCHANGED <<packetsSent, inflight>>]_vars

\* The loop of the connected session has sent the sample stamped 1, which
\* is still the latest sample.
C15_Witness ==
    /\ connectionState = "connected"
    /\ rafQueue # <<>>
    /\ smState.connected
    /\ smState.timestamp = 1
    /\ Head(rafQueue).lastTimestamp = 1
    /\ packetsSent = 1

\* C16: while the state is connected, an iteration of a send loop in which
\* the timestamp of the latest sample differs from that of the last sample
\* the loop sent puts one Layout B packet holding the sample and the
\* current time in flight on the channel and increases packetsSent by one.
C16_LoopSendsNewSample ==
    [][(/\ sendLoop
        /\ connectionState = "connected"
        /\ smState.connected
        /\ smState.timestamp # Head(rafQueue).lastTimestamp)
          => /\ packetsSent' = packetsSent + 1
             /\ \E m \in inflight' \ inflight :
                   /\ m.data = packPose(smState.axes, now)
                   /\ dataChannel # 0
                   /\ m.chan = dataChannel]_vars

\* C17: the step that delivers the open signal of the channel of an attempt
\* whose offer/answer exchange succeeded sets connectionState to connected
\* and registers the first frame callback of a new send loop, and a send
\* loop is started by no other step.
C17_OpenConnectsAndStartsLoop ==
    [][/\ \A s \in Sessions :
             ChannelOpen(s)
                => /\ connTask[s] = Done
                   /\ connectionState' = "connected"
                   /\ rafQueue' = Append(rafQueue,
                         [id |-> s, lastTimestamp |-> 0, ended |-> FALSE])
       /\ Len(rafQueue') > Len(rafQueue) => \E s \in Sessions : ChannelOpen(s)]_vars

\* connect() was called in state disconnected, its exchange succeeded and
\* its channel opened: the state is connected and one loop is registered.
C17_Witness ==
    /\ lastCall = [op |-> "connect", from |-> "disconnected"]
    /\ connectionState = "connected"
    /\ dataChannel # 0
    /\ chanState[dataChannel] = "open"
    /\ connTask[dataChannel] = Done
    /\ Len(rafQueue) = 1
    /\ rafQueue[1].id = dataChannel

\* C18: on a connected session with an open channel, sendPose(p) increases
\* packetsSent by one at once and puts one packet in flight that decodes
\* to p rounded to 32-bit floats; the step that delivers a packet increases
\* packetsReceived by one, publishes the decoded axes in receivedPose and
\* consumes the packet, so that one send is counted once on each side; and
\* packetsReceived never exceeds packetsSent (after one send, neither
\* counter exceeds 1).
C18_LoopbackRoundTrip ==
    /\ [](packetsReceived <= packetsSent)
    /\ [][/\ \A axes \in AxesSet :
                (/\ sendPose(axes)
                 /\ connectionState = "connected"
                 /\ dataChannel # 0
                 /\ chanState[dataChannel] = "open")
                   => /\ packetsSent' = packetsSent + 1
                      /\ \E m \in inflight' \ inflight :
                            /\ m.chan = dataChannel
                            /\ unpackPoseWithTimestamp(m.data).axes = Float32Axes(axes)
          /\ \A m \in inflight :
                Receive(m)
                   => /\ packetsReceived' = packetsReceived + 1
                      /\ receivedPose' = Some(unpackPoseWithTimestamp(m.data).axes)
                      /\ m \notin inflight']_vars

\* One pose with axes that are no 32-bit floats was sent by sendPose and
\* received: both counters are 1 and receivedPose is the rounded pose.
C18_Witness ==
    /\ lastCall.op = "sendPose"
    /\ connectionState = "connected"
    /\ packetsSent = 1
    /\ packetsReceived = 1
    /\ inflight = {}
    /\ receivedPose = Some(Float32Axes(InexactAxes))
    /\ receivedPose # Some(InexactAxes)
    /\ receivedPose[1].tx = AxisOne \div 2
    /\ receivedPose[1].ty = -(AxisOne \div 2 + 4)

\* C19: send and receive times are readings of the one clock of the page,
\* which never goes back, so every published latencyMs is at least 0, and
\* so are every latency in the window and the sum that avgLatencyMs
\* divides by a positive count.
C19_LatencyNonNegative ==
    /\ latencyMs # Null => latencyMs[1] >= 0
    /\ \A i \in DOMAIN latencyHistory : latencyHistory[i] >= 0
    /\ avgLatencyMs # Null => /\ avgLatencyMs[1][1] >= 0
                              /\ avgLatencyMs[1][2] > 0

\* A packet stamped at time 0 was received at time 1: the published latency
\* is 1 and the average is 1 over one packet.
C19_Witness ==
    /\ packetsSent = 1
    /\ latencyMs = Some(1)
    /\ latencyHistory = <<1>>
    /\ avgLatencyMs = Some(<<1, 1>>)

\* C20: a decoder called with a buffer whose byte length differs from the
\* packet size of its layout (24 for Layout A, 32 for Layout B) throws an
\* Error whose message names the expected size and the actual length, and
\* returns nothing: no axis and no timestamp is decoded.
C20_WrongSizeThrows ==
    codecCall.fn # "none" =>
        LET expected == IF codecCall.fn = "unpackPose (Layout A)" THEN 24 ELSE 32
            got == codecCall.buffer.byteLength
        IN  got # expected =>
               /\ codecCall.result =
                     [error |-> "Invalid buffer size", expected |-> expected,
                      got |-> got]
               /\ DOMAIN codecCall.result \cap {"timestamp", "axes", "tx"} = {}

\* unpackPoseWithTimestamp was called with a 10-byte buffer and threw
\* "expected 32 bytes, got 10".
C20_Witness ==
    /\ codecCall.fn = "unpackPoseWithTimestamp"
    /\ codecCall.buffer.byteLength = 10
    /\ codecCall.result.error = "Invalid buffer size"
    /\ codecCall.result.expected = 32
    /\ codecCall.result.got = 10

\* C21: every call of an encoder returns a buffer of exactly the packet
\* size of its layout, 24 bytes for Layout A and 32 bytes for Layout B,
\* whatever the pose, the timestamp and the reuse buffer.
C21_PackedSize ==
    /\ codecCall.fn = "packPose (Layout A)"
          => /\ codecCall.result # RangeError
             /\ Len(codecCall.result) = 24
    /\ codecCall.fn = "packPose (Layout B)"
          => /\ codecCall.result # RangeError
             /\ Len(codecCall.result) = 32

\* C22: the bytes of an encoded packet are the reference wire format on
\* every host: Layout A holds the six axes as little-endian 32-bit floats
\* at offsets 0, 4, ..., 20; Layout B holds the timestamp as a little-endian
\* 64-bit float at offset 0 and the axes as little-endian 32-bit floats at
\* offsets 8, 12, ..., 28.
C22_WireFormat ==
    LET r == codecCall.result
        p == codecCall.axes
        le32(v) == Reverse(Float32Bytes(v))
    IN  /\ codecCall.fn = "packPose (Layout A)"
              => r = le32(p.tx) \o le32(p.ty) \o le32(p.tz)
                     \o le32(p.rx) \o le32(p.ry) \o le32(p.rz)
        /\ (codecCall.fn = "packPose (Layout B)" /\ codecCall.reuseBuffer = Null)
              => r = Reverse(Float64Bytes(codecCall.timestamp))
                     \o le32(p.tx) \o le32(p.ty) \o le32(p.tz)
                     \o le32(p.rx) \o le32(p.ry) \o le32(p.rz)

\* C23: decoding the encoding of a pose p and a timestamp t gives t exactly
\* (Layout B) and, in both layouts, every axis as the 32-bit float nearest
\* to the axis of p, in the order tx, ty, tz, rx, ry, rz; so it gives p
\* itself when the axes of p are 32-bit floats.
C23_RoundTrip ==
    LET withTimestamp == codecCall.fn = "unpackPoseWithTimestamp(packPose)"
        decoded == IF withTimestamp THEN codecCall.result.axes ELSE codecCall.result
    IN  (withTimestamp \/ codecCall.fn = "unpackPose(packPose)")
           => /\ withTimestamp => codecCall.result.timestamp = codecCall.timestamp
              /\ decoded = Float32Axes(codecCall.axes)
              /\ codecCall.axes \in {ZeroAxes, ExtremeAxes} => decoded = codecCall.axes

\* A pose with axes that are no 32-bit floats went through Layout B with the
\* timestamp 2^20 + 1: the timestamp came back as it was and the axes came
\* back rounded.
C23_Witness ==
    /\ codecCall.fn = "unpackPoseWithTimestamp(packPose)"
    /\ codecCall.axes = InexactAxes
    /\ codecCall.timestamp = 2^20 + 1
    /\ codecCall.result.timestamp = 2^20 + 1
    /\ codecCall.result.axes.tx = AxisOne \div 2
    /\ codecCall.result.axes.ty = -(AxisOne \div 2 + 4)
    /\ codecCall.result.axes.rx = 1

\* C24: packPoseToUint8Array(axes, target, offset) with room for the packet
\* returns the target itself, of the same length, with every byte outside
\* offset .. offset + SIZE - 1 as it was; and every packet written into an
\* array and not overwritten since decodes at its offset to its own pose.
C24_WritesOnlyItsRange ==
    /\ (codecCall.fn = "packPoseToUint8Array" /\ ~Threw(codecCall.result))
          => /\ codecCall.result.ref = "target"
             /\ Len(codecCall.result.bytes) = Len(codecCall.target)
             /\ \A i \in 1..Len(codecCall.target) :
                   (i <= codecCall.offset
                      \/ i > codecCall.offset + PacketSize(codecCall.layout))
                      => codecCall.result.bytes[i] = codecCall.target[i]
    /\ codecCall.fn = "unpackPoseFromUint8Array"
          => \A q \in codecCall.packets :
                q.offset = codecCall.offset
                   => codecCall.result = Float32Axes(q.axes)

\* Two different poses were written at offsets 0 and SIZE of one array and
\* the packet at offset 0 was then decoded to the first of them.
C24_Witness ==
    /\ codecCall.fn = "unpackPoseFromUint8Array"
    /\ codecCall.offset = 0
    /\ \E q1, q2 \in codecCall.packets :
          /\ q1.offset = 0
          /\ q2.offset = PacketSize(codecCall.layout)
          /\ q1.axes # q2.axes
          /\ codecCall.result = Float32Axes(q1.axes)

\* C25 as stated: applyDeadzone(value, threshold) is exactly 0 when
\* |value| < threshold and is non-zero only when |value| > threshold, for
\* every value and every threshold.
C25_DeadzoneZero ==
    codecCall.fn = "applyDeadzone" =>
        LET absValue == IF codecCall.value < 0 THEN -codecCall.value
                        ELSE codecCall.value
        IN  /\ absValue < codecCall.threshold
                  => codecCall.result = [n |-> 0, d |-> 1]
            /\ codecCall.result.n # 0 \/ codecCall.result.d = 0
                  => absValue > codecCall.threshold

\* C25: for every threshold other than 1, applyDeadzone(value, threshold)
\* is exactly 0 when |value| < threshold and is non-zero only when
\* |value| > threshold; at |value| = threshold it is 0.
C25_DeadzoneZeroUnlessThresholdOne ==
    (codecCall.fn = "applyDeadzone" /\ codecCall.threshold # 1000) =>
        LET absValue == IF codecCall.value < 0 THEN -codecCall.value
                        ELSE codecCall.value
        IN  /\ absValue < codecCall.threshold
                  => codecCall.result = [n |-> 0, d |-> 1]
            /\ codecCall.result.n # 0 \/ codecCall.result.d = 0
                  => absValue > codecCall.threshold

\* applyDeadzone(-0.1, 0.1), on the threshold, gave 0.
C25_Witness ==
    /\ codecCall.fn = "applyDeadzone"
    /\ codecCall.value = -100
    /\ codecCall.threshold = 100
    /\ codecCall.result.n = 0
    /\ codecCall.result.d > 0

\* C26: for every value and every threshold other than 1, the result of
\* applyDeadzone lies in [-1, 1] and does not have the sign opposite to the
\* sign of value.
C26_DeadzoneRangeAndSign ==
    (codecCall.fn = "applyDeadzone" /\ codecCall.threshold # 1000) =>
        LET r == codecCall.result
        IN  /\ r.d > 0
            /\ -r.d <= r.n
            /\ r.n <= r.d
            /\ codecCall.value > 0 => r.n >= 0
            /\ codecCall.value < 0 => r.n <= 0

C28_StateChanged ==
    codecCall.fn = "hasStateChanged" =>
        LET current == codecCall.current
            axesDiffer ==
                \E k \in {"tx", "ty", "tz", "rx", "ry", "rz"} :
                   \/ current.axes[k] - codecCall.newAxes[k] > 10
                   \/ codecCall.newAxes[k] - current.axes[k] > 10
            buttonsDiffer ==
                \/ DOMAIN current.buttons # DOMAIN codecCall.newButtons
                \/ \E key \in DOMAIN current.buttons \cap DOMAIN codecCall.newButtons :
                      current.buttons[key] # codecCall.newButtons[key]
        IN  /\ codecCall.result
               = (current.connected # codecCall.connected \/ axesDiffer \/ buttonsDiffer)
            /\ codecCall.resultHid = (axesDiffer \/ buttonsDiffer)

\* Two states that differ only in the key of their one button, each map
\* with one key, were compared and reported as changed.
C28_Witness ==
    /\ codecCall.fn = "hasStateChanged"
    /\ codecCall.current.connected = codecCall.connected
    /\ codecCall.newAxes = codecCall.current.axes
    /\ DOMAIN codecCall.current.buttons = {0}
    /\ DOMAIN codecCall.newButtons = {1}
    /\ codecCall.result

\* C29: while the state is connected at most one send loop has a frame
\* callback registered, and an iteration of a send loop that increases
\* packetsSent sends a sample that no other loop started in the same
\* Connected period has already handled.
C29_OneSendLoop ==
    /\ [](connectionState = "connected" => Len(rafQueue) <= 1)
    /\ [][(sendLoop /\ packetsSent' = packetsSent + 1)
            => \A i \in 2..Len(rafQueue) :
                  \/ rafQueue[i].ended
                  \/ rafQueue[i].lastTimestamp # smState.timestamp]_vars

\* C30: the close event of the channel of an earlier attempt, closed by
\* disconnect(), that is delivered after a later connect() has moved the
\* state to connecting or connected, leaves connectionState as it is.
C30_StaleCloseIgnored ==
    [][\A s \in Sessions :
          (/\ ChannelCloseEvent(s)
           /\ chanState[s] = "closed"
           /\ dataChannel # 0
           /\ s < dataChannel
           /\ connectionState \in {"connecting", "connected"})
          => connectionState' = connectionState]_vars

C32_DisconnectedHoldsNothing ==
    /\ [](connectionState = "disconnected"
             => pc1 = 0 /\ pc2 = 0 /\ dataChannel = 0)
    /\ [][(connectSession /\ nextSession' # nextSession)
             => /\ pc1 # 0 => pc1State[pc1] = "closed"
                /\ pc2 # 0 => pc2State[pc2] = "closed"]_vars

\* C33: in every reachable state, also after disconnect() and a reconnect
\* with packets still in flight, no more packets are counted as received
\* than are counted as sent.
C33_ReceivedAtMostSent == packetsReceived <= packetsSent

\* C34: in every reachable state the latency window holds
\* min(packetsReceived, LATENCY_HISTORY_SIZE) samples, and receivedPose,
\* latencyMs and avgLatencyMs are null exactly when packetsReceived is 0.
C34_WindowSize ==
    /\ Len(latencyHistory) = IF packetsReceived < LATENCY_HISTORY_SIZE
                             THEN packetsReceived ELSE LATENCY_HISTORY_SIZE
    /\ (receivedPose = Null) <=> (packetsReceived = 0)
    /\ (latencyMs = Null) <=> (packetsReceived = 0)
    /\ (avgLatencyMs = Null) <=> (packetsReceived = 0)

\* More packets were received than the window holds, and the window is
\* full.
C34_Witness ==
    /\ packetsReceived = LATENCY_HISTORY_SIZE + 1
    /\ Len(latencyHistory) = LATENCY_HISTORY_SIZE
    /\ avgLatencyMs # Null

\* C35: the delivery of a valid packet whose send time is below the send
\* time of a packet received earlier in the session leaves receivedPose as
\* it is.
C35_NeverBackInTime ==
    [][\A m \in inflight :
          (/\ Receive(m)
           /\ ~Threw(unpackPoseWithTimestamp(m.data))
           /\ newestStamp # Null
           /\ unpackPoseWithTimestamp(m.data).timestamp < newestStamp[1])
          => receivedPose' = receivedPose]_vars

\* C36: at most one frame callback of poll is requested, and none is while
\* isPolling is false.
C36_OnePollingLoop ==
    /\ Cardinality(frames) <= 1
    /\ ~isPolling => frames = {}

\* C37: after every run of poll() that finds a SpaceMouse, each published
\* axis differs from the sampled one by at most epsilon, and the published
\* buttons and connected flag are the sampled ones.
C37_GateKeepsValues ==
    [][(nextFrameId' # nextFrameId /\ gamepads'.spaceMouse # Null)
          => LET sampled == gamepads'.spaceMouse[1]
             IN  /\ \A k \in {"tx", "ty", "tz", "rx", "ry", "rz"} :
                       /\ state'.axes[k] - sampled.axes[k] <= 10
                       /\ sampled.axes[k] - state'.axes[k] <= 10
                 /\ state'.buttons = sampled.buttons
                 /\ state'.connected]_vars

\* The last poll compared the published state with a sample whose tx lies
\* within epsilon of the published one without being equal, and published
\* nothing: the state is the one compared and the SpaceMouse still reports
\* that sample.
C37_Witness ==
    /\ codecCall.fn = "hasStateChanged"
    /\ ~codecCall.result
    /\ codecCall.newAxes.tx # codecCall.current.axes.tx
    /\ state = codecCall.current
    /\ gamepads.spaceMouse = Some([axes |-> codecCall.newAxes,
                                   buttons |-> codecCall.newButtons])
    /\ isPolling

\* C38: a click on the Connect Loopback button, which is offered in the
\* states disconnected and failed, sets connectionState to connecting.
C38_ConnectButtonConnects ==
    [][ClickConnect => connectionState' = "connecting"]_vars

====
